---- MODULE Spec2Model ----
(***************************************************************************)
(* Disk inventory reconciliation and disk requests of                      *)
(* storageadmin/views/disk.py.                                             *)
(*                                                                         *)
(* Text the code inspects character by character (device names, serials,   *)
(* redirect values) is a sequence of one-character strings.  Text the code *)
(* only copies or compares whole (filesystem types, labels, uuids) is a    *)
(* TLA+ string.  Python's None in a whole-text field is the atom None.     *)
(***************************************************************************)
EXTENDS Integers, Sequences, FiniteSets, TLC

VARIABLES
    db,     \* the committed database: [disks : Seq(Disk), pools : SUBSET Pool]
    tx,     \* the database as seen inside the open transaction of the pass
    pc,     \* position of the reconciliation pass
    scan,   \* the snapshot scan_disks() returned to the pass
    pre,    \* the committed database when the current / last request began
    last,   \* what the current / last request did (observation record)
    passes, \* reconciliation passes begun so far
    requests, \* requests of DiskDetailView.post answered so far
    crypttab, \* /etc/crypttab: whether it exists, and its text
    call,   \* what the current / last call into system/luks.py did
    tmp,    \* the files mkstemp() made that exist: who made them, their text
    keyfile, \* the keyfile of a container: whether it exists, and its text
    arg,    \* the argument a helper function is called with
    ret     \* what the helper returned; <<>> while it has not been called

luksVars == <<crypttab, call, tmp, keyfile>>
fnVars == <<arg, ret>>
vars == <<db, tx, pc, scan, pre, last, passes, requests, crypttab, call, tmp, keyfile,
          arg, ret>>

None == "None"

(***************************************************************************)
(* Bounds                                                                  *)
(***************************************************************************)
MaxPrior == 2       \* disk records in the inventory before the first pass
MaxScan == 2        \* devices in one scan snapshot
MaxPasses == 1      \* reconciliation passes in one behaviour
MaxRequests == 1    \* requests answered in one run of the request handlers
MaxMembers == 1     \* member devices of an imported pool
MaxMapped == 3      \* mapped crypt volumes dmsetup lists
MaxCalls == 2       \* calls of the keyfile functions in one behaviour
MaxPartNumber == 12 \* partitions of one device
MaxLines == 2       \* lines of /etc/crypttab before the first call

(***************************************************************************)
(* Text helpers                                                            *)
(***************************************************************************)
StartsWith(s, p) == Len(s) >= Len(p) /\ SubSeq(s, 1, Len(p)) = p

\* str.split('-'): the fields between the dashes (always at least one field)
RECURSIVE SplitDash(_)
SplitDash(s) ==
    IF \A i \in 1..Len(s) : s[i] # "-"
    THEN <<s>>
    ELSE LET i == CHOOSE k \in 1..Len(s) :
                     s[k] = "-" /\ \A j \in 1..(k - 1) : s[j] # "-"
         IN  <<SubSeq(s, 1, i - 1)>> \o SplitDash(SubSeq(s, i + 1, Len(s)))

\* '-'.join(fields)
RECURSIVE JoinDash(_)
JoinDash(fields) ==
    IF Len(fields) = 0 THEN <<>>
    ELSE IF Len(fields) = 1 THEN fields[1]
    ELSE fields[1] \o <<"-">> \o JoinDash(Tail(fields))

\* re.match('fake-serial-', serial) is not None
FakeSerialPrefix == <<"f","a","k","e","-","s","e","r","i","a","l","-">>
IsFakeSerial(serial) == StartsWith(serial, FakeSerialPrefix)

\* re.match('virtio-|md-|mmc-|nvme-|dm-name-luks-|bcache|nbd', name) is not None
NoSmartPrefixes ==
    { <<"v","i","r","t","i","o","-">>,
      <<"m","d","-">>,
      <<"m","m","c","-">>,
      <<"n","v","m","e","-">>,
      <<"d","m","-","n","a","m","e","-","l","u","k","s","-">>,
      <<"b","c","a","c","h","e">>,
      <<"n","b","d">> }
IsNoSmartName(name) == \E p \in NoSmartPrefixes : StartsWith(name, p)

\* re.match('part.+', field) is not None
IsPartField(f) ==
    /\ StartsWith(f, <<"p","a","r","t">>)
    /\ Len(f) >= 5
    /\ f[5] # "\n"

(***************************************************************************)
(* Role field: the text column Disk.role                                   *)
(***************************************************************************)
EmptyDict == <<>>
RoleNull == [tag |-> "null", text |-> "", dict |-> EmptyDict]
RoleText(t) == [tag |-> "text", text |-> t, dict |-> EmptyDict]
\* json.dumps(dict)
JsonDumps(d) == [tag |-> "json", text |-> "", dict |-> d]

DictMerge(a, b) ==
    [k \in (DOMAIN a) \cup (DOMAIN b) |-> IF k \in DOMAIN b THEN b[k] ELSE a[k]]
DictWithout(d, ks) == [k \in (DOMAIN d) \ ks |-> d[k]]

SCAN_DISKS_KNOWN_ROLES ==
    {"mdraid", "root", "LUKS", "openLUKS", "bcache", "bcache-cdev", "partitions"}


(***************************************************************************)
(* The devices the scanner can report, and the by-id resolver              *)
(***************************************************************************)
K_sda == <<"s","d","a">>
K_sdb == <<"s","d","b">>
K_sdb3 == <<"s","d","b","3">>
K_vda == <<"v","d","a">>
K_nvme == <<"n","v","m","e","0","n","1">>
K_luks == <<"l","u","k","s","-","x">>
K_nbd0 == <<"n","b","d","0">>

B_ataA == <<"a","t","a","-","A">>
B_ataB == <<"a","t","a","-","B">>
B_ataB3 == <<"a","t","a","-","B","-","p","a","r","t","3">>
B_nvmeC == <<"n","v","m","e","-","C">>
B_dmluks == <<"d","m","-","n","a","m","e","-","l","u","k","s","-","x">>

\* get_dev_byid_name(name, True): (by-id name, True), or (name, False) when
\* the device has no by-id name
GetDevByIdName(name) ==
    CASE name = K_sda -> <<B_ataA, TRUE>>
      [] name = K_sdb -> <<B_ataB, TRUE>>
      [] name = K_sdb3 -> <<B_ataB3, TRUE>>
      [] name = K_nvme -> <<B_nvmeC, TRUE>>
      [] name = K_luks -> <<B_dmluks, TRUE>>
      [] OTHER -> <<name, FALSE>>

SerialA == <<"S","-","A">>
SerialB == <<"S","-","B">>
SerialC == <<"S","-","C">>
SerialX == <<"S","-","X">>
SerialFake == FakeSerialPrefix \o <<"1">>

NoPartitions == <<>>
IsEmptyDict(d) == DOMAIN d = {}

Device(name, serial, fstype, type, uuid, label, root, partitions) ==
    [name |-> name, serial |-> serial, size |-> 100, parted |-> ~IsEmptyDict(partitions),
     model |-> "QEMU", transport |-> "sata", vendor |-> "ATA",
     uuid |-> uuid, fstype |-> fstype, type |-> type, label |-> label,
     root |-> root, partitions |-> partitions]

\* a data disk that is a member of btrfs pool "pool1"
DevData == Device(K_sda, SerialA, "btrfs", "disk", "uuid-a", "pool1", FALSE, NoPartitions)
\* the same disk once formatted as a bcache cache device
DevCache == Device(K_sda, SerialA, "bcache-cdev", "disk", "uuid-c", None, FALSE, NoPartitions)
\* the system disk: root filesystem on its third partition
DevRoot == Device(K_sdb, SerialB, "btrfs", "disk", "uuid-r", "rockstor", TRUE,
                  [p \in {K_sdb3} |-> "btrfs"])
\* a virtio disk without serial: scan_disks hands it a fake serial
DevVirtio == Device(K_vda, SerialFake, None, "disk", None, None, FALSE, NoPartitions)
\* an nvme disk holding a LUKS container
DevNvme == Device(K_nvme, SerialC, "crypto_LUKS", "disk", "uuid-l", None, FALSE, NoPartitions)
\* that container opened: a mapped device holding a member of "pool1"
DevCrypt == Device(K_luks, SerialX, "btrfs", "crypt", "uuid-a", "pool1", FALSE, NoPartitions)
\* a network block device that is an md raid member
DevNbd == Device(K_nbd0, SerialX, "linux_raid_member", "disk", "uuid-m", None, FALSE, NoPartitions)
\* a bcache backing device
DevBcache == Device(K_sdb, SerialB, "bcache", "disk", "uuid-b", None, FALSE, NoPartitions)

Devices == <<DevData, DevCache, DevRoot, DevVirtio, DevNvme, DevCrypt,
             DevNbd, DevBcache>>

\* scan_disks(): a list of at most MaxScan devices, in lsblk order
Snapshots ==
    { s \in UNION {[1..n -> 1..Len(Devices)] : n \in 0..MaxScan} :
        \A i, j \in DOMAIN s : i < j => s[i] < s[j] }
ScanOf(s) == [i \in DOMAIN s |-> Devices[s[i]]]


(***************************************************************************)
(* Disk and Pool records                                                   *)
(***************************************************************************)
DiskRec(serial, name, offline, role, pool, sa, se, opts, parted, fsuuid) ==
    [serial |-> serial, name |-> name, size |-> 100, parted |-> parted,
     offline |-> offline, model |-> "QEMU", transport |-> "sata", vendor |-> "ATA",
     btrfs_uuid |-> fsuuid, role |-> role, smart_available |-> sa,
     smart_enabled |-> se, smart_options |-> opts, pool |-> pool]

\* Disk(name=byid_disk_name, serial=d.serial, role=None): the other fields
\* take the column defaults
NewDisk(name, serial) ==
    [serial |-> serial, name |-> name, size |-> 0, parted |-> FALSE,
     offline |-> FALSE, model |-> None, transport |-> None, vendor |-> None,
     btrfs_uuid |-> None, role |-> RoleNull, smart_available |-> FALSE,
     smart_enabled |-> FALSE, smart_options |-> None, pool |-> None]

PoolRec(name, raid, role) == [name |-> name, raid |-> raid, role |-> role]

\* 'detached-' + str(uuid.uuid4()).replace('-', ''): the 32 hex digits are
\* abbreviated to one; uuid4 never repeats a value, so the digit drawn is one
\* no name in use carries
HexDigits == <<"0","1","2","3","4","5","6","7","8","9","a","b","c","d","e","f">>
Placeholder(k) == <<"d","e","t","a","c","h","e","d","-">> \o <<HexDigits[k]>>
Uuid4(used) ==
    CHOOSE k \in 1..Len(HexDigits) :
        /\ Placeholder(k) \notin used
        /\ \A j \in 1..(k - 1) : Placeholder(j) \in used

NamesOf(disks) == {disks[i].name : i \in 1..Len(disks)}
SerialsOf(disks) == {disks[i].serial : i \in 1..Len(disks)}

(***************************************************************************)
(* Phase 1 of _update_disk_state: scrub names, drop duplicate and fake     *)
(* serial records, mark missing disks offline                              *)
(***************************************************************************)
\* variant of ScrubRecord that leaves the S.M.A.R.T. flags of a missing disk
ScrubRecordKeepsSmart(do, name, disks_scanned) ==
    IF do.serial \notin SerialsOf(disks_scanned)
    THEN [do EXCEPT !.name = name, !.offline = TRUE]
    ELSE [do EXCEPT !.name = name]

\* variant of ScrubRecord that renames only the records of missing disks
ScrubRecordKeepsName(do, name, disks_scanned) ==
    IF do.serial \notin SerialsOf(disks_scanned)
    THEN [do EXCEPT !.name = name, !.offline = TRUE,
                    !.smart_available = FALSE, !.smart_enabled = FALSE]
    ELSE do

ScrubRecord(do, name, disks_scanned) ==
    IF do.serial \notin SerialsOf(disks_scanned)
    THEN [do EXCEPT !.name = name, !.offline = TRUE,
                    !.smart_available = FALSE, !.smart_enabled = FALSE]
    ELSE [do EXCEPT !.name = name]

\* variants of ScrubDeletes that forget one of the two tests
ScrubDeletesFakeOnly(do, serial_numbers_seen) == IsFakeSerial(do.serial)
ScrubDeletesSeenOnly(do, serial_numbers_seen) == do.serial \in serial_numbers_seen

\* a record is deleted when its serial was seen before or is a fake serial
ScrubDeletes(do, serial_numbers_seen) ==
    (do.serial \in serial_numbers_seen) \/ IsFakeSerial(do.serial)

RECURSIVE ScrubFrom(_, _, _, _, _)
ScrubFrom(disks, i, serial_numbers_seen, out, disks_scanned) ==
    IF i > Len(disks) THEN out
    ELSE LET do == disks[i]
             name == Placeholder(Uuid4(NamesOf(disks) \cup NamesOf(out)))
         IN  IF ScrubDeletes(do, serial_numbers_seen)
             THEN ScrubFrom(disks, i + 1, serial_numbers_seen, out, disks_scanned)
             ELSE ScrubFrom(disks, i + 1, serial_numbers_seen \cup {do.serial},
                            Append(out, ScrubRecord(do, name, disks_scanned)),
                            disks_scanned)

Scrub(disks, disks_scanned) == ScrubFrom(disks, 1, {}, <<>>, disks_scanned)

(***************************************************************************)
(* Phase 2: upsert every scanned device                                    *)
(***************************************************************************)
Entry(cond, k, v) == IF cond THEN [x \in {k} |-> v] ELSE EmptyDict

\* disk_roles_identified for one scanned device
DiskRolesIdentified(d) ==
    LET mdraid == Entry(d.fstype \in {"isw_raid_member", "linux_raid_member"},
                        "mdraid", <<d.fstype>>)
        luks == Entry(d.fstype = "crypto_LUKS", "LUKS", <<d.uuid>>)
        open == Entry(d.type = "crypt", "openLUKS",
                      <<"d","m","-","n","a","m","e","-">> \o d.name)
        bcache == Entry(d.fstype = "bcache", "bcache",
                        <<"b","c","a","c","h","e","-", d.uuid>>)
        cdev == Entry(d.fstype = "bcache-cdev", "bcachecdev",
                      <<"b","c","a","c","h","e","-", d.uuid>>)
        nbd == Entry(StartsWith(d.name, <<"n","b","d">>), "nbd", d.name)
        root == Entry(d.root, "root", <<d.fstype>>)
        parts == Entry(~IsEmptyDict(d.partitions), "partitions",
                       [bp \in {GetDevByIdName(part)[1] : part \in DOMAIN d.partitions} |->
                           d.partitions[CHOOSE part \in DOMAIN d.partitions :
                                            GetDevByIdName(part)[1] = bp]])
    IN  DictMerge(DictMerge(DictMerge(DictMerge(DictMerge(DictMerge(DictMerge(
            mdraid, luks), open), bcache), cdev), nbd), root), parts)

LegacyRoles == {"isw_raid_member", "linux_raid_member"}

\* variant of ResetLegacyRole that leaves the column as it is
ResetLegacyRoleNever(role) == role

\* the legacy reset: a role column holding one of the two legacy strings reads as None
ResetLegacyRole(role) ==
    IF role.tag = "text" /\ role.text \in LegacyRoles THEN RoleNull ELSE role

\* variant of NonScanDisksRoles that starts every pass from no previous role
NonScanDisksRolesDropped(role) == EmptyDict

\* non_scan_disks_roles: the previous roles scan_disks does not assign
NonScanDisksRoles(role) ==
    IF role.tag = "null" THEN EmptyDict
    ELSE DictWithout(role.dict, SCAN_DISKS_KNOWN_ROLES)

\* the role column written back
CombinedRole(non_scan_disks_roles, disk_roles_identified) ==
    IF ~IsEmptyDict(non_scan_disks_roles) \/ ~IsEmptyDict(disk_roles_identified)
    THEN JsonDumps(DictMerge(non_scan_disks_roles, disk_roles_identified))
    ELSE RoleNull

\* variant of BtrfsUuidOf that keeps the uuid of any filesystem
BtrfsUuidKept(d) == d.uuid

\* dob.btrfs_uuid
BtrfsUuidOf(d) ==
    IF d.fstype # None /\ d.fstype # "btrfs" THEN None ELSE d.uuid

PoolNames(pools) == {p.name : p \in pools}

\* variant of PoolOf that attaches only the root disk
PoolOfRootOnly(known, d) == IF d.root THEN d.label ELSE None

\* variant of PoolOf that attaches the disk only to a pool it has just created
PoolOfCreatedOnly(known, d) == IF ~known /\ d.root THEN d.label ELSE None

\* dob.pool: the pool of that label, which is created for a root disk when
\* no pool is known by the label
PoolOf(known, d) == IF known \/ d.root THEN d.label ELSE None

\* variant of CreatesPool that creates a pool for any label no pool carries
CreatesPoolForAnyLabel(known, d) == ~known

\* if (dob.pool is None and d.root is True): Pool(name=d.label, ...) is saved
CreatesPool(known, d) == ~known /\ d.root

\* one iteration of "for d in disks"; st = [disks, pools, created, err]
UpsertDevice(st, d) ==
    LET byid_disk_name == GetDevByIdName(d.name)[1]
        idx == {i \in 1..Len(st.disks) : st.disks[i].serial = d.serial}
        exists == idx # {}
        at == CHOOSE i \in idx : TRUE
        dob0 == IF exists THEN [st.disks[at] EXCEPT !.name = byid_disk_name]
                ELSE NewDisk(byid_disk_name, d.serial)
        role1 == ResetLegacyRole(dob0.role)
        role2 == CombinedRole(NonScanDisksRoles(role1), DiskRolesIdentified(d))
        known == d.label \in PoolNames(st.pools)
        pools1 == IF known /\ d.root
                  THEN {IF p.name = d.label THEN [p EXCEPT !.role = "root"] ELSE p :
                            p \in st.pools}
                  ELSE st.pools
        pools2 == IF CreatesPool(known, d)
                  THEN pools1 \cup {PoolRec(d.label, "single", "root")}
                  ELSE pools1
        dob == [dob0 EXCEPT !.size = d.size, !.parted = d.parted, !.offline = FALSE,
                            !.model = d.model, !.transport = d.transport,
                            !.vendor = d.vendor, !.btrfs_uuid = BtrfsUuidOf(d),
                            !.role = role2,
                            !.pool = PoolOf(known, d)]
    IN  IF st.err THEN st
        ELSE IF Cardinality(idx) > 1 \/ role1.tag = "text"
        \* Disk.objects.get() finds several records, or json.loads() rejects the text
        THEN [st EXCEPT !.err = TRUE]
        ELSE [disks |-> IF exists THEN [st.disks EXCEPT ![at] = dob]
                        ELSE Append(st.disks, dob),
              pools |-> pools2,
              created |-> IF exists THEN st.created ELSE st.created \cup {d.serial},
              err |-> FALSE]

RECURSIVE UpsertFrom(_, _, _)
UpsertFrom(st, disks_scanned, j) ==
    IF j > Len(disks_scanned) THEN st
    ELSE UpsertFrom(UpsertDevice(st, disks_scanned[j]), disks_scanned, j + 1)

Upsert(t, disks_scanned) ==
    UpsertFrom([disks |-> t.disks, pools |-> t.pools, created |-> {}, err |-> FALSE],
               disks_scanned, 1)

(***************************************************************************)
(* Phase 3: S.M.A.R.T. availability of the attached disks                  *)
(***************************************************************************)
\* what smart.available(name, options) does: raises, or returns (available, enabled)
SmartOutcome(raised, available, enabled) ==
    [raised |-> raised, available |-> available, enabled |-> enabled]
SmartOutcomes ==
    { SmartOutcome(TRUE, FALSE, FALSE), SmartOutcome(FALSE, TRUE, TRUE),
      SmartOutcome(FALSE, TRUE, FALSE), SmartOutcome(FALSE, FALSE, FALSE) }

\* the records smart.available() is called for
SmartExempt(do) == IsFakeSerial(do.serial) \/ IsNoSmartName(do.name)
Probed(disks) == {i \in 1..Len(disks) : ~disks[i].offline /\ ~SmartExempt(disks[i])}

\* variant of SmartProbe without the except clause
SmartProbeNoExcept(do, outcome) ==
    [escapes |-> outcome.raised, available |-> outcome.available,
     enabled |-> outcome.enabled]

\* try: smart.available(...) except Exception: both flags False.  What one
\* probe leaves: the flags, and whether the exception escapes the loop
SmartProbe(do, outcome) ==
    IF outcome.raised
    THEN [escapes |-> FALSE, available |-> FALSE, enabled |-> FALSE]
    ELSE [escapes |-> FALSE, available |-> outcome.available,
          enabled |-> outcome.enabled]

\* the record as saved by one iteration of the loop; an exempt record is
\* changed in memory only: "continue" skips do.save()
SmartRecord(do, outcome) ==
    IF do.offline \/ SmartExempt(do) THEN do
    ELSE [do EXCEPT !.smart_available = SmartProbe(do, outcome).available,
                    !.smart_enabled = SmartProbe(do, outcome).enabled]

SmartRefresh(disks, probe) ==
    [i \in 1..Len(disks) |->
        IF i \in DOMAIN probe THEN SmartRecord(disks[i], probe[i]) ELSE disks[i]]

SmartEscapes(disks, probe) ==
    \E i \in DOMAIN probe : SmartProbe(disks[i], probe[i]).escapes

(***************************************************************************)
(* Name redirection (DiskDetailView)                                       *)
(***************************************************************************)
\* variant of RoleFilterDiskName that never follows a redirect
RoleFilterOwnName(disk) == [ok |-> disk.role.tag # "text", name |-> disk.name]

\* _role_filter_disk_name: [ok, name]; json.loads() rejects a non json role
RoleFilterDiskName(disk) ==
    IF disk.role.tag = "null" THEN [ok |-> TRUE, name |-> disk.name]
    ELSE IF disk.role.tag = "text" THEN [ok |-> FALSE, name |-> disk.name]
    ELSE IF "redirect" \in DOMAIN disk.role.dict
    THEN [ok |-> TRUE, name |-> disk.role.dict["redirect"]]
    ELSE [ok |-> TRUE, name |-> disk.name]

\* variant of ReverseRoleFilterName that takes the text before the first '-'
\* for the base name
ReverseAtFirstDash(disk_name) ==
    LET fields == SplitDash(disk_name)
    IN  IF Len(fields) > 0 /\ IsPartField(fields[Len(fields)])
        THEN <<fields[1], TRUE>>
        ELSE <<disk_name, FALSE>>

\* _reverse_role_filter_name: <<name, isPartition>>
ReverseRoleFilterName(disk_name) ==
    LET fields == SplitDash(disk_name)
    IN  IF Len(fields) > 0 /\ IsPartField(fields[Len(fields)])
        THEN <<JoinDash(SubSeq(fields, 1, Len(fields) - 1)), TRUE>>
        ELSE <<disk_name, FALSE>>


(***************************************************************************)
(* Initial inventories: what earlier versions and earlier passes left      *)
(***************************************************************************)
K_sdc == <<"s","d","c">>
B_ataA1 == B_ataA \o <<"-","p","a","r","t","1">>
K_vda1 == K_vda \o <<"-","p","a","r","t","1">>

PriorRecords == <<
    \* a partitioned data disk the user redirected to its first partition
    DiskRec(SerialA, B_ataA, FALSE, JsonDumps([redirect |-> B_ataA1]), None,
            TRUE, TRUE, "-d sat", TRUE, None),
    \* a second row of the same serial, from before names were by-id names,
    \* whose redirect names a partition of another disk
    DiskRec(SerialA, K_sdc, FALSE, JsonDumps([redirect |-> B_ataB3]), None,
            FALSE, FALSE, None, TRUE, "uuid-a"),
    \* the disk as an earlier pass left it when it was a bcache cache device
    DiskRec(SerialA, B_ataA, FALSE,
            JsonDumps([bcachecdev |-> <<"b","c","a","c","h","e","-","uuid-c">>]),
            None, TRUE, FALSE, None, FALSE, None),
    \* the system disk with a role written before roles were json
    DiskRec(SerialB, B_ataB, FALSE, RoleText("linux_raid_member"), None,
            FALSE, FALSE, None, FALSE, None),
    \* an nvme disk probed by a version that did not yet exempt nvme names
    DiskRec(SerialC, B_nvmeC, FALSE, JsonDumps([LUKS |-> <<"uuid-l">>]), None,
            TRUE, TRUE, None, FALSE, None),
    \* a serial-less virtio disk the user configured
    DiskRec(SerialFake, K_vda, FALSE, JsonDumps([redirect |-> K_vda1]), None,
            TRUE, TRUE, "-d sat", TRUE, None),
    \* a pool member that was detached
    DiskRec(SerialX, Placeholder(16), TRUE, RoleNull, "pool1",
            FALSE, FALSE, None, FALSE, "uuid-a") >>

Pool1 == PoolRec("pool1", "raid1", None)
\* the root pool as created before pools had a role
LegacyRootPool == PoolRec("rockstor", "single", None)
InitialPools == { {}, {Pool1, LegacyRootPool} }

InitialDisks ==
    { [i \in DOMAIN s |-> PriorRecords[s[i]]] :
        s \in { t \in UNION {[1..n -> 1..Len(PriorRecords)] : n \in 0..MaxPrior} :
                  \A i, j \in DOMAIN t : i < j => t[i] < t[j] } }

TxOf(d) == [disks |-> d.disks, pools |-> d.pools, created |-> {}]

\* op, outcome: the request and how it ended; cause, phase: why and where it
\* failed; target: the disk name it was sent for; wiped: the names wipe_disk
\* was called with; probe: what smart.available did, by record position;
\* created: the serials the pass built new records for
NoProbe == <<>>
\* request.data of a request that carries none: redirect_part defaults to '',
\* delete_tick to False
NoData == [redirect_part |-> <<>>, delete_tick |-> FALSE]
Obs(op, outcome, cause, phase, target, wiped, probe, created) ==
    [op |-> op, outcome |-> outcome, cause |-> cause, phase |-> phase,
     target |-> target, wiped |-> wiped, probe |-> probe, created |-> created,
     data |-> NoData]
NoRequest == Obs("none", "none", "none", "idle", <<>>, <<>>, NoProbe, {})

\* /etc/crypttab before any installation wrote it, and no call made yet
AbsentFile == [exists |-> FALSE, text |-> <<>>]
NoCall == [op |-> "none", uuid |-> <<>>, keyfile_entry |-> <<>>, result |-> "none",
           before |-> AbsentFile, lookups |-> 0]

Init ==
    /\ db \in { [disks |-> ds, pools |-> ps] : ds \in InitialDisks, ps \in InitialPools }
    \* Disk.pool references a Pool row; Disk.name is a unique column
    /\ \A i \in 1..Len(db.disks) :
           db.disks[i].pool = None \/ db.disks[i].pool \in PoolNames(db.pools)
    /\ \A i, j \in 1..Len(db.disks) : i # j => db.disks[i].name # db.disks[j].name
    /\ tx = TxOf(db)
    /\ pc = "idle"
    /\ scan = <<>>
    /\ pre = db
    /\ last = NoRequest
    /\ passes = 0
    /\ requests = 0
    /\ crypttab = AbsentFile
    /\ tmp = {}
    /\ keyfile = AbsentFile
    /\ call = NoCall
    /\ arg = <<>>
    /\ ret = <<>>

(***************************************************************************)
(* _update_disk_state, one action per phase, inside transaction.atomic     *)
(***************************************************************************)
\* scan_disks() returns; the transaction opens on the committed database
PassBegin(s) ==
    /\ pc = "idle"
    /\ passes < MaxPasses
    /\ passes' = passes + 1
    /\ scan' = ScanOf(s)
    /\ pre' = db
    /\ tx' = TxOf(db)
    /\ pc' = "scrub"
    /\ last' = Obs("scan", "none", "none", "idle", <<>>, <<>>, NoProbe, {})
    /\ UNCHANGED <<db, requests, luksVars, fnVars>>

\* variant of Rollback without transaction.atomic: the writes made so far stay
RollbackKeepsWrites(cause) ==
    /\ db' = [disks |-> tx.disks, pools |-> tx.pools]
    /\ tx' = TxOf(db')
    /\ pc' = "idle"
    /\ last' = Obs("scan", "failed", cause, pc, <<>>, <<>>, NoProbe, {})
    /\ UNCHANGED <<scan, pre, passes, requests, luksVars, fnVars>>

\* leaving the atomic block by an exception: every write of the pass is undone
Rollback(cause) ==
    /\ tx' = TxOf(db)
    /\ pc' = "idle"
    /\ last' = Obs("scan", "failed", cause, pc, <<>>, <<>>, NoProbe, {})
    /\ UNCHANGED <<db, scan, pre, passes, requests, luksVars, fnVars>>

\* leaving the atomic block normally: the writes of the pass become visible
Commit(disks, pools, probe, created) ==
    /\ db' = [disks |-> disks, pools |-> pools]
    /\ tx' = TxOf(db')
    /\ pc' = "idle"
    /\ last' = Obs("scan", "completed", "none", "idle", <<>>, <<>>, probe, created)
    /\ UNCHANGED <<scan, pre, passes, requests, luksVars, fnVars>>

PassScrub ==
    /\ pc = "scrub"
    /\ tx' = [tx EXCEPT !.disks = Scrub(tx.disks, scan)]
    /\ pc' = "upsert"
    /\ UNCHANGED <<db, scan, pre, last, passes, requests, luksVars, fnVars>>

PassUpsert ==
    /\ pc = "upsert"
    /\ LET st == Upsert(tx, scan)
       IN  IF st.err THEN Rollback("upsert")
           ELSE /\ tx' = [disks |-> st.disks, pools |-> st.pools, created |-> st.created]
                /\ pc' = "smart"
                /\ UNCHANGED <<db, scan, pre, last, passes, requests, luksVars, fnVars>>

PassSmart ==
    /\ pc = "smart"
    /\ \E probe \in [Probed(tx.disks) -> SmartOutcomes] :
          IF SmartEscapes(tx.disks, probe) THEN Rollback("smart")
          ELSE Commit(SmartRefresh(tx.disks, probe), tx.pools, probe, tx.created)

\* scan_disks, the resolver, a filesystem collaborator or the database raises
PassFail ==
    /\ pc \in {"scrub", "upsert", "smart"}
    /\ Rollback("collaborator")

(***************************************************************************)
(* DiskDetailView._wipe, inside transaction.atomic                         *)
(***************************************************************************)
\* variant of WipeDiscrepancy that trusts the redirect
WipeDiscrepancyIgnored(reverse_name, disk) == FALSE

\* if reverse_name != disk.name: the wipe is aborted
WipeDiscrepancy(reverse_name, disk) == reverse_name # disk.name

\* what a request leaves to be observed: how it ended, and what it carried
Answer(op, outcome, cause, dname, wiped, data) ==
    [Obs(op, outcome, cause, "idle", dname, wiped, NoProbe, {}) EXCEPT !.data = data]

\* the request raised: handle_exception, the atomic block is rolled back
Failed(op, cause, dname, wiped, data) ==
    /\ last' = Answer(op, "failed", cause, dname, wiped, data)
    /\ pre' = db
    /\ UNCHANGED <<db, tx, pc, scan, passes, luksVars, fnVars>>

\* the names a request can carry: those of the inventory and an unknown one
RequestNames == NamesOf(db.disks) \cup {<<"n","o","n","e">>}

\* one more request is answered
Counted == requests < MaxRequests /\ requests' = requests + 1

\* _wipe as called for the request op (a command of post, or _role_disk)
WipeAs(op, dname, data, wipe_ok) ==
    /\ pc = "idle"
    /\ LET idx == {i \in 1..Len(db.disks) : db.disks[i].name = dname}
           at == CHOOSE i \in idx : TRUE
           disk == db.disks[at]
           filtered == RoleFilterDiskName(disk)
           disk_name == filtered.name
           reversed == ReverseRoleFilterName(disk_name)
       IN  IF Cardinality(idx) # 1 THEN Failed(op, "validate", dname, <<>>, data)
           ELSE IF ~filtered.ok THEN Failed(op, "role_filter", dname, <<>>, data)
           ELSE IF WipeDiscrepancy(reversed[1], disk)
           THEN Failed(op, "discrepancy", dname, <<>>, data)
           ELSE IF ~wipe_ok THEN Failed(op, "wipe_disk", dname, <<disk_name>>, data)
           ELSE /\ db' = [db EXCEPT !.disks[at] =
                             [disk EXCEPT !.parted = reversed[2], !.btrfs_uuid = None]]
                /\ tx' = TxOf(db')
                /\ pre' = db
                /\ last' = Answer(op, "completed", "none", dname, <<disk_name>>, data)
                /\ UNCHANGED <<pc, scan, passes, luksVars, fnVars>>

\* post: command == 'wipe'
Wipe(dname, wipe_ok) == WipeAs("wipe", dname, NoData, wipe_ok) /\ UNCHANGED requests

Next ==
    \/ \E s \in Snapshots : PassBegin(s)
    \/ PassScrub
    \/ PassUpsert
    \/ PassSmart
    \/ PassFail
    \/ \E dname \in RequestNames, wipe_ok \in BOOLEAN : Wipe(dname, wipe_ok)

Spec == Init /\ [][Next]_vars

(***************************************************************************)
(* DiskDetailView._role_disk and the requests of post, on the inventories  *)
(* reconciliation leaves                                                   *)
(***************************************************************************)
\* variant of RedirectAndWipe that lets a request do both
RedirectAndWipeAllowed(redirect_role_change, is_delete_ticked) == FALSE

\* if redirect_role_change: if is_delete_ticked: raise
RedirectAndWipe(redirect_role_change, is_delete_ticked) ==
    redirect_role_change /\ is_delete_ticked

\* the roles dict after the add, update or removal of its redirect entry
RedirectUpdated(roles, new_redirect_role) ==
    IF new_redirect_role # <<>>
    THEN DictMerge(roles, [redirect |-> new_redirect_role])
    ELSE DictWithout(roles, {"redirect"})

RoleDisk(dname, new_redirect_role, is_delete_ticked, wipe_ok) ==
    /\ pc = "idle"
    /\ Counted
    /\ LET data == [redirect_part |-> new_redirect_role, delete_tick |-> is_delete_ticked]
           idx == {i \in 1..Len(db.disks) : db.disks[i].name = dname}
           at == CHOOSE i \in idx : TRUE
           disk == db.disks[at]
           roles == IF disk.role.tag = "json" THEN disk.role.dict ELSE EmptyDict
           prior_redirect ==
               IF "redirect" \in DOMAIN roles THEN roles["redirect"] ELSE <<>>
           redirect_role_change == new_redirect_role # prior_redirect
       IN  IF Cardinality(idx) # 1
           THEN Failed("role-drive", "validate", dname, <<>>, data)
           ELSE IF disk.role.tag = "text"
           THEN Failed("role-drive", "json_loads", dname, <<>>, data)
           ELSE IF RedirectAndWipe(redirect_role_change, is_delete_ticked)
           THEN Failed("role-drive", "redirect_and_wipe", dname, <<>>, data)
           ELSE IF redirect_role_change
           THEN /\ db' = [db EXCEPT !.disks[at].role =
                             JsonDumps(RedirectUpdated(roles, new_redirect_role))]
                /\ tx' = TxOf(db')
                /\ pre' = db
                /\ last' = Answer("role-drive", "completed", "none", dname, <<>>, data)
                /\ UNCHANGED <<pc, scan, passes, luksVars, fnVars>>
           ELSE IF ~is_delete_ticked
           THEN /\ last' = Answer("role-drive", "completed", "none", dname, <<>>, data)
                /\ pre' = db
                /\ UNCHANGED <<db, tx, pc, scan, passes, luksVars, fnVars>>
           ELSE IF disk.pool # None
           THEN Failed("role-drive", "pool_member", dname, <<>>, data)
           ELSE WipeAs("role-drive", dname, data, wipe_ok)

\* the inventory a completed pass over the snapshot leaves (every probe
\* finding S.M.A.R.T. enabled); the inventory itself when the pass fails
PassResult(d, disks_scanned) ==
    LET st == Upsert([disks |-> Scrub(d.disks, disks_scanned), pools |-> d.pools],
                     disks_scanned)
        probe == [i \in Probed(st.disks) |-> SmartOutcome(FALSE, TRUE, TRUE)]
    IN  IF st.err THEN d
        ELSE [disks |-> SmartRefresh(st.disks, probe), pools |-> st.pools]

\* the values of redirect_part a request carries: '' and by-id partition names
RedirectInputs == {<<>>, B_ataA1, B_ataB3}
WipeCommands == {"wipe", "btrfs-wipe"}

RequestInit ==
    /\ \E ds \in InitialDisks, ps \in InitialPools, s \in Snapshots :
          LET d == [disks |-> ds, pools |-> ps]
          IN  /\ \A i \in 1..Len(ds) : ds[i].pool = None \/ ds[i].pool \in PoolNames(ps)
              /\ \A i, j \in 1..Len(ds) : i # j => ds[i].name # ds[j].name
              /\ db = PassResult(d, ScanOf(s))
    /\ tx = TxOf(db)
    /\ pc = "idle"
    /\ scan = <<>>
    /\ pre = db
    /\ last = NoRequest
    /\ passes = 0
    /\ requests = 0
    /\ crypttab = AbsentFile
    /\ tmp = {}
    /\ keyfile = AbsentFile
    /\ call = NoCall
    /\ arg = <<>>
    /\ ret = <<>>

PostWipe(command, dname, wipe_ok) ==
    Counted /\ WipeAs(command, dname, NoData, wipe_ok)

\* variant of NotOffline that lets any record be deleted
NotOfflineIgnored(disk) == FALSE

\* if (disk.offline is not True)
NotOffline(disk) == disk.offline # TRUE

\* the records but the one at position at
WithoutRecord(disks, at) ==
    SubSeq(disks, 1, at - 1) \o SubSeq(disks, at + 1, Len(disks))

\* DiskDetailView.delete; delete_ok: disk.delete() does not raise
DeleteDisk(dname, delete_ok) ==
    /\ pc = "idle"
    /\ Counted
    /\ LET idx == {i \in 1..Len(db.disks) : db.disks[i].name = dname}
           at == CHOOSE i \in idx : TRUE
       IN  IF Cardinality(idx) # 1 THEN Failed("delete", "does_not_exist", dname, <<>>, NoData)
           ELSE IF NotOffline(db.disks[at])
           THEN Failed("delete", "not_offline", dname, <<>>, NoData)
           ELSE IF ~delete_ok THEN Failed("delete", "system_error", dname, <<>>, NoData)
           ELSE /\ db' = [db EXCEPT !.disks = WithoutRecord(db.disks, at)]
                /\ tx' = TxOf(db')
                /\ pre' = db
                /\ last' = Answer("delete", "completed", "none", dname, <<>>, NoData)
                /\ UNCHANGED <<pc, scan, passes, luksVars, fnVars>>

\* get_pool_info(disk_name): the label of the pool and the names of its members
PoolInfo(label, disks) == [label |-> label, disks |-> disks]

\* the members a pool can report: whole disks of the inventory and their
\* first partitions, by name; a disk is a member whole or by a partition,
\* never both
FirstPartition(name) == name \o <<"-","p","a","r","t","1">>
ImportMembers == NamesOf(db.disks) \cup {FirstPartition(name) : name \in NamesOf(db.disks)}
ImportInputs ==
    { PoolInfo("pool2", disks) :
        disks \in { m \in UNION {[1..n -> ImportMembers] : n \in 1..MaxMembers} :
                      \A i, j \in DOMAIN m :
                          i # j => ReverseRoleFilterName(m[i])[1] #
                                       ReverseRoleFilterName(m[j])[1] } }

\* one iteration of "for device in p_info['disks']"; st = [disks, err]
ImportDevice(st, device, po) ==
    LET reversed == ReverseRoleFilterName(device)
        idx == {i \in 1..Len(st.disks) : st.disks[i].name = reversed[1]}
        at == CHOOSE i \in idx : TRUE
        do == st.disks[at]
    IN  IF st.err # "none" THEN st
        ELSE IF Cardinality(idx) # 1 THEN [st EXCEPT !.err = "member_unknown"]
        ELSE IF ~reversed[2]
        THEN [st EXCEPT !.disks[at] = [do EXCEPT !.pool = po, !.parted = FALSE]]
        ELSE IF do.role.tag = "text" THEN [st EXCEPT !.err = "json_loads"]
        ELSE IF do.role.tag = "json"
        THEN [st EXCEPT !.disks[at] =
                 [do EXCEPT !.pool = po, !.parted = TRUE,
                            !.role = JsonDumps(DictMerge(do.role.dict,
                                                         [redirect |-> device]))]]
        \* '{"redirect": "%s"}' % device.name: device is the str that was
        \* split above, and a str has no attribute 'name'
        ELSE [st EXCEPT !.err = "attribute_error"]

RECURSIVE ImportFrom(_, _, _, _)
ImportFrom(st, disks, j, po) ==
    IF j > Len(disks) THEN st
    ELSE ImportFrom(ImportDevice(st, disks[j], po), disks, j + 1, po)

\* _btrfs_disk_import; ok: no collaborator (get_pool_info, mount_root,
\* pool_raid, usage_bound, enable_quota, import_shares, import_snapshots) raises
BtrfsDiskImport(dname, p_info, ok) ==
    /\ pc = "idle"
    /\ Counted
    /\ LET data == [redirect_part |-> <<>>, delete_tick |-> FALSE,
                    p_info |-> p_info, ok |-> ok]
           idx == {i \in 1..Len(db.disks) : db.disks[i].name = dname}
           at == CHOOSE i \in idx : TRUE
           st == ImportFrom([disks |-> db.disks, err |-> "none"], p_info.disks, 1,
                            p_info.label)
       IN  IF Cardinality(idx) # 1
           THEN Failed("btrfs-disk-import", "validate", dname, <<>>, data)
           ELSE IF ~RoleFilterDiskName(db.disks[at]).ok
           THEN Failed("btrfs-disk-import", "role_filter", dname, <<>>, data)
           ELSE IF ~ok
           THEN Failed("btrfs-disk-import", "collaborator", dname, <<>>, data)
           ELSE IF st.err # "none"
           THEN Failed("btrfs-disk-import", st.err, dname, <<>>, data)
           ELSE /\ db' = [disks |-> st.disks,
                          pools |-> db.pools \cup {PoolRec(p_info.label, "raid1", None)}]
                /\ tx' = TxOf(db')
                /\ pre' = db
                /\ last' = Answer("btrfs-disk-import", "completed", "none", dname,
                                  <<>>, data)
                /\ UNCHANGED <<pc, scan, passes, luksVars, fnVars>>

RequestNext ==
    \/ \E command \in WipeCommands, dname \in RequestNames, wipe_ok \in BOOLEAN :
          PostWipe(command, dname, wipe_ok)
    \/ \E dname \in RequestNames, new_redirect_role \in RedirectInputs,
          is_delete_ticked \in BOOLEAN, wipe_ok \in BOOLEAN :
          RoleDisk(dname, new_redirect_role, is_delete_ticked, wipe_ok)
    \/ \E dname \in RequestNames, delete_ok \in BOOLEAN : DeleteDisk(dname, delete_ok)
    \/ \E dname \in RequestNames, p_info \in ImportInputs, ok \in BOOLEAN :
          BtrfsDiskImport(dname, p_info, ok)

RequestSpec == RequestInit /\ [][RequestNext]_vars


(***************************************************************************)
(* Properties of the reconciliation pass                                   *)
(***************************************************************************)
PassCompleted == last.op = "scan" /\ last.outcome = "completed"
PassFailed == last.op = "scan" /\ last.outcome = "failed"
ScanSerials == SerialsOf(scan)
HasDuplicateSerial(disks) ==
    \E i, j \in 1..Len(disks) : i # j /\ disks[i].serial = disks[j].serial

\* C1: after a completed pass no two persisted disk records have the same
\* serial, whatever the prior inventory (duplicates included) and the scan
C1_UniqueSerials == PassCompleted => ~HasDuplicateSerial(db.disks)

\* a pass completed on an inventory that held two records of one serial,
\* that serial being attached
C1_Witness ==
    /\ PassCompleted
    /\ \E i, j \in 1..Len(pre.disks) :
          /\ i # j
          /\ pre.disks[i].serial = pre.disks[j].serial
          /\ pre.disks[i].serial \in ScanSerials

\* C2: the pass is all or nothing: while a pass is running the committed
\* inventory (disks and pools) is the one from before the pass, and after a
\* failed pass it still is
C2_AllOrNothing ==
    /\ pc # "idle" => db = pre
    /\ PassFailed => db = pre

\* a pass failed in its last phase, after the scrub and upsert phases had
\* rewritten records and created a pool inside the transaction
C2_Witness ==
    /\ PassFailed
    /\ last.phase = "smart"
    /\ Len(pre.disks) > 0
    /\ \E j \in 1..Len(scan) : scan[j].root /\ scan[j].label \notin PoolNames(pre.pools)

\* C6: after a completed pass a record is offline exactly when its serial is
\* absent from the scan, and an offline record has both S.M.A.R.T. flags false
C6_OfflineIffAbsent ==
    PassCompleted =>
        \A i \in 1..Len(db.disks) :
            LET do == db.disks[i]
            IN  /\ do.offline <=> (do.serial \notin ScanSerials)
                /\ do.offline => (~do.smart_available /\ ~do.smart_enabled)

\* a pass completed that found an online record with S.M.A.R.T. enabled to be
\* missing, and a record that was offline to be attached again
C6_Witness ==
    /\ PassCompleted
    /\ \E i \in 1..Len(pre.disks) :
          /\ ~pre.disks[i].offline /\ pre.disks[i].smart_enabled
          /\ ~IsFakeSerial(pre.disks[i].serial)
          /\ pre.disks[i].serial \notin ScanSerials
    /\ \E i \in 1..Len(pre.disks) :
          pre.disks[i].offline /\ pre.disks[i].serial \in ScanSerials


\* the role kinds the specification calls scanner-derived, as the code spells
\* them, and the condition under which the scan assigns each
ScannerKinds ==
    {"mdraid", "LUKS", "openLUKS", "bcache", "bcachecdev", "nbd", "root", "partitions"}
ScannerCondition(kind, d) ==
    CASE kind = "mdraid" -> d.fstype \in {"isw_raid_member", "linux_raid_member"}
      [] kind = "LUKS" -> d.fstype = "crypto_LUKS"
      [] kind = "openLUKS" -> d.type = "crypt"
      [] kind = "bcache" -> d.fstype = "bcache"
      [] kind = "bcachecdev" -> d.fstype = "bcache-cdev"
      [] kind = "nbd" -> StartsWith(d.name, <<"n","b","d">>)
      [] kind = "root" -> d.root
      [] kind = "partitions" -> DOMAIN d.partitions # {}
RoleKinds(role) == IF role.tag = "json" THEN DOMAIN role.dict ELSE {}
\* the entries of a role set whose kind is user-assigned
UserRoles(role) ==
    IF role.tag = "json"
    THEN DictWithout(role.dict, ScannerKinds \cup {"bcache-cdev"})
    ELSE EmptyDict
\* the scan entry that decides the record of its serial: the last of that serial
Decides(j) == \A k \in 1..Len(scan) : k > j => scan[k].serial # scan[j].serial

\* C3: after a completed pass the record of every scanned device carries a
\* scanner-derived role kind exactly when the kind's condition holds for the
\* device in this scan: no value of an earlier pass survives
C3_ScannerRolesRecomputed ==
    PassCompleted =>
        \A j \in 1..Len(scan) : \A i \in 1..Len(db.disks) :
            (Decides(j) /\ db.disks[i].serial = scan[j].serial) =>
                \A kind \in ScannerKinds :
                    (kind \in RoleKinds(db.disks[i].role)) <=> ScannerCondition(kind, scan[j])

\* the first record of its serial: the one the scrub phase keeps
FirstOfSerial(disks, i) == \A k \in 1..(i - 1) : disks[k].serial # disks[i].serial

\* C4 as stated: every record of a real serial found in the scan has the same
\* user-assigned role entries after the pass as before it
C4_UserRolesKept_AsStated ==
    PassCompleted =>
        \A i \in 1..Len(pre.disks) :
            (~IsFakeSerial(pre.disks[i].serial) /\ pre.disks[i].serial \in ScanSerials) =>
                \E k \in 1..Len(db.disks) :
                    /\ db.disks[k].serial = pre.disks[i].serial
                    /\ UserRoles(db.disks[k].role) = UserRoles(pre.disks[i].role)

\* C4 amended: every record of a real serial found in the scan that the scrub
\* phase keeps (the first record of its serial) has the same user-assigned
\* role entries, kind and value, after the pass as before it
C4_UserRolesKept ==
    PassCompleted =>
        \A i \in 1..Len(pre.disks) :
            ( /\ ~IsFakeSerial(pre.disks[i].serial)
              /\ pre.disks[i].serial \in ScanSerials
              /\ FirstOfSerial(pre.disks, i) ) =>
                \E k \in 1..Len(db.disks) :
                    /\ db.disks[k].serial = pre.disks[i].serial
                    /\ UserRoles(db.disks[k].role) = UserRoles(pre.disks[i].role)

\* a pass completed over an attached disk that carried a redirect role, and
\* the scan derived a role for the same disk
C4_Witness ==
    /\ PassCompleted
    /\ \E i \in 1..Len(pre.disks) : \E k \in 1..Len(db.disks) :
          /\ FirstOfSerial(pre.disks, i)
          /\ ~IsFakeSerial(pre.disks[i].serial)
          /\ db.disks[k].serial = pre.disks[i].serial
          /\ "redirect" \in RoleKinds(pre.disks[i].role)
          /\ "redirect" \in RoleKinds(db.disks[k].role)
          /\ RoleKinds(db.disks[k].role) \cap ScannerKinds # {}

\* the inventory a second pass over the same snapshot leaves, phases 1 and 2
SecondPass == Upsert([disks |-> Scrub(db.disks, scan), pools |-> db.pools], scan)
RecordOf(disks, serial) == disks[CHOOSE i \in 1..Len(disks) : disks[i].serial = serial]

C7_ExemptFlagsFalse ==
    PassCompleted =>
        \A i \in 1..Len(db.disks) :
            (~db.disks[i].offline /\ SmartExempt(db.disks[i])) =>
                /\ ~db.disks[i].smart_available
                /\ ~db.disks[i].smart_enabled
                /\ i \notin DOMAIN last.probe

\* C8: a raising S.M.A.R.T. probe never fails the pass; the record it raised
\* for is persisted with both flags false and every other probed record with
\* the flags its probe returned
C8_ProbeFailureContained ==
    /\ PassFailed => last.cause # "smart"
    /\ PassCompleted =>
          /\ DOMAIN last.probe = Probed(db.disks)
          /\ \A i \in DOMAIN last.probe :
                IF last.probe[i].raised
                THEN ~db.disks[i].smart_available /\ ~db.disks[i].smart_enabled
                ELSE /\ db.disks[i].smart_available = last.probe[i].available
                     /\ db.disks[i].smart_enabled = last.probe[i].enabled

\* a pass completed in which the probe raised for a record that had S.M.A.R.T.
\* enabled and a later record was probed and found S.M.A.R.T. capable
C8_Witness ==
    /\ PassCompleted
    /\ \E i, k \in DOMAIN last.probe :
          /\ i < k
          /\ last.probe[i].raised
          /\ \E n \in 1..Len(pre.disks) :
                /\ pre.disks[n].serial = db.disks[i].serial
                /\ pre.disks[n].smart_enabled
          /\ ~last.probe[k].raised /\ db.disks[k].smart_available

\* C9: after a completed pass every record with a fake serial was created by
\* that pass from a scanned device: it is online and holds no user-assigned
\* role, no S.M.A.R.T. flag or option and no other value from before the pass
C9_FakeNotCarried ==
    PassCompleted =>
        \A i \in 1..Len(db.disks) :
            IsFakeSerial(db.disks[i].serial) =>
                /\ db.disks[i].serial \in last.created
                /\ \E j \in 1..Len(scan) :
                      /\ Decides(j)
                      /\ scan[j].serial = db.disks[i].serial
                      /\ \A kind \in RoleKinds(db.disks[i].role) :
                            /\ kind \in ScannerKinds
                            /\ \E k \in 1..Len(scan) :
                                  /\ scan[k].serial = scan[j].serial
                                  /\ ScannerCondition(kind, scan[k])
                      /\ db.disks[i].size = scan[j].size
                      /\ db.disks[i].parted = scan[j].parted
                      /\ db.disks[i].model = scan[j].model
                      /\ db.disks[i].btrfs_uuid \in {None, scan[j].uuid}
                      /\ db.disks[i].pool \in {None, scan[j].label}
                /\ ~db.disks[i].offline
                /\ UserRoles(db.disks[i].role) = EmptyDict
                /\ db.disks[i].smart_options = None
                /\ ~db.disks[i].smart_available /\ ~db.disks[i].smart_enabled

\* a pass completed on an inventory holding a fake-serial record with a
\* redirect role and S.M.A.R.T. options, the device being attached again
C9_Witness ==
    /\ PassCompleted
    /\ \E n \in 1..Len(pre.disks) :
          /\ IsFakeSerial(pre.disks[n].serial)
          /\ "redirect" \in RoleKinds(pre.disks[n].role)
          /\ pre.disks[n].smart_options # None
          /\ pre.disks[n].serial \in SerialsOf(db.disks)

(***************************************************************************)
(* Properties of the wipe request                                          *)
(***************************************************************************)
\* the record a request names, in the inventory the request found
TargetIdx == {i \in 1..Len(pre.disks) : pre.disks[i].name = last.target}
Target == pre.disks[CHOOSE i \in TargetIdx : TRUE]
\* the request resolved one record and its effective name
Resolved == Cardinality(TargetIdx) = 1 /\ RoleFilterDiskName(Target).ok
RoundTrips ==
    ReverseRoleFilterName(RoleFilterDiskName(Target).name)[1] = Target.name

\* C10: wipe_disk is invoked only when reversing the effective name gives the
\* persisted name; when it does not, the request fails, wipe_disk is not
\* invoked and the inventory is unchanged
C10_WipeGuard ==
    last.op = "wipe" =>
        /\ last.wiped # <<>> => (Resolved /\ RoundTrips)
        /\ (Resolved /\ ~RoundTrips) =>
              /\ last.outcome = "failed"
              /\ last.wiped = <<>>
              /\ db = pre

\* a wipe was refused for a disk whose redirect names a partition of another
\* disk
C10_Witness ==
    /\ last.op = "wipe"
    /\ Resolved
    /\ ~RoundTrips
    /\ "redirect" \in RoleKinds(Target.role)
    /\ last.outcome = "failed"

(***************************************************************************)
(* _reverse_role_filter_name on the names a redirect role can hold         *)
(***************************************************************************)
Digits == <<"0","1","2","3","4","5","6","7","8","9">>
\* str(n) for 1 <= n <= 99
Decimal(n) == IF n < 10 THEN <<Digits[n + 1]>>
              ELSE <<Digits[(n \div 10) + 1], Digits[(n % 10) + 1]>>

\* the by-id name of partition n of the device named base, which is the
\* value a redirect role is given: "ata-QEMU_DVD-ROM_QM00001-part1"
RedirectName(base, n) == base \o <<"-","p","a","r","t">> \o Decimal(n)

\* device names, with and without '-', one of them itself a partition name
BaseNames ==
    { K_sda, K_vda, B_ataA, B_ataB, B_nvmeC, B_dmluks, B_ataA1,
      <<"a","t","a","-","Q","-","D","V","D","-","R","O","M">> }
\* last fields that are no 'part<N>'
OtherFields ==
    { <<"p","a","r","t">>, <<"p","a","r","t","n","e","r">>,
      <<"p","a","r","t","e","d">>, <<"p","a","r","t","1","x">>,
      <<"P","a","r","t","1">>, <<"s","p","a","r","t","1">>,
      <<"p","a","r","1">>, <<"1">>, <<>> }
NameInputs ==
    BaseNames
    \cup { RedirectName(base, n) : base \in BaseNames, n \in 1..MaxPartNumber }
    \cup { base \o <<"-">> \o f : base \in BaseNames, f \in OtherFields }
    \cup { <<"p","a","r","t","1">>, <<"p","a","r","t","n","e","r">> }

NameInit ==
    /\ arg \in NameInputs
    /\ ret = <<>>
    /\ db = [disks |-> <<>>, pools |-> {}]
    /\ tx = TxOf(db)
    /\ pc = "idle"
    /\ scan = <<>>
    /\ pre = db
    /\ last = NoRequest
    /\ passes = 0
    /\ requests = 0
    /\ crypttab = AbsentFile
    /\ tmp = {}
    /\ keyfile = AbsentFile
    /\ call = NoCall

ReverseRedirect ==
    /\ ret = <<>>
    /\ ret' = ReverseRoleFilterName(arg)
    /\ UNCHANGED <<db, tx, pc, scan, pre, last, passes, requests, luksVars, arg>>

NameSpec == NameInit /\ [][ReverseRedirect]_vars

\* a partition number: a decimal numeral
IsPartNumber(t) ==
    Len(t) >= 1 /\ \A i \in 1..Len(t) : \E k \in 1..Len(Digits) : t[i] = Digits[k]
\* the name ends in a '-part<N>' segment
EndsInPartN(name) ==
    LET fields == SplitDash(name)
        f == fields[Len(fields)]
    IN  /\ Len(fields) >= 2
        /\ StartsWith(f, <<"p","a","r","t">>)
        /\ IsPartNumber(SubSeq(f, 5, Len(f)))

\* C13: for every base name and every partition number N, reversing the
\* redirect name '<base>-part<N>' returns (base, true), also when base holds
\* '-' characters
C13_ReverseIsLeftInverse ==
    ret # <<>> =>
        \A base \in BaseNames, n \in 1..MaxPartNumber :
            arg = RedirectName(base, n) => ret = <<base, TRUE>>

\* the redirect name of a two digit partition of a base name with several
\* '-' characters was reversed
C13_Witness ==
    /\ ret # <<>>
    /\ \E base \in BaseNames, n \in 10..MaxPartNumber :
          /\ arg = RedirectName(base, n)
          /\ Len(SplitDash(base)) >= 3
          /\ ret[2]

\* C14: every name that does not end in a '-part<N>' segment is returned
\* unchanged with is_partition false, a last field that merely begins with
\* 'part' included
C14_NonPartitionUnchanged ==
    (ret # <<>> /\ ~EndsInPartN(arg)) => ret = <<arg, FALSE>>

(***************************************************************************)
(* Properties of the wipe and role-drive requests                          *)
(***************************************************************************)
\* the request asks for a wipe: one of the wipe commands, or role-drive with
\* the delete tick
WipeRequested ==
    \/ last.op \in WipeCommands
    \/ last.op = "role-drive" /\ last.data.delete_tick
\* the redirect role the named record stored when the request arrived, an
\* absent one counting as ''
StoredRedirect ==
    IF Target.role.tag = "json" /\ "redirect" \in DOMAIN Target.role.dict
    THEN Target.role.dict["redirect"]
    ELSE <<>>

\* C11: a wipe request on a disk whose pool reference is set is rejected,
\* whether it is the wipe or btrfs-wipe command or role-drive with the delete
\* tick: wipe_disk is not invoked and the inventory is unchanged
C11_PoolMemberWipeRejected ==
    (WipeRequested /\ Cardinality(TargetIdx) = 1 /\ Target.pool # None) =>
        /\ last.outcome = "failed"
        /\ last.wiped = <<>>
        /\ db = pre

\* C12: a role-drive request that changes the stored redirect role and has
\* the delete tick is rejected before any side effect: the inventory (the
\* role included) is unchanged and wipe_disk is not invoked
C12_RedirectAndWipeRejected ==
    ( /\ last.op = "role-drive"
      /\ Cardinality(TargetIdx) = 1
      /\ last.data.delete_tick
      /\ last.data.redirect_part # StoredRedirect ) =>
        /\ last.outcome = "failed"
        /\ last.wiped = <<>>
        /\ db = pre

\* a role-drive request with the delete tick that removes the redirect of a
\* disk which is no pool member, and whose wipe would otherwise have run
C12_Witness ==
    /\ last.op = "role-drive"
    /\ Cardinality(TargetIdx) = 1
    /\ last.data.delete_tick
    /\ last.data.redirect_part = <<>>
    /\ StoredRedirect # <<>>
    /\ Target.pool = None
    /\ RoundTrips
    /\ last.cause = "redirect_and_wipe"

(***************************************************************************)
(* system/luks.py: /etc/crypttab.  The file is its text; lines and fields  *)
(* are computed from it.  Every space, tab, newline, '=', '/' and '#' is   *)
(* an element of its own; a run of other characters, which no operation of *)
(* the code cuts or looks inside (a word, the 36 characters of a uuid), is *)
(* one element                                                             *)
(***************************************************************************)
UuidA == <<"aaaaaaaa-aaaa-4aaa-8aaa-aaaaaaaaaaaa">>
UuidB == <<"bbbbbbbb-bbbb-4bbb-8bbb-bbbbbbbbbbbb">>

\* the k-th smallest element of a set of numbers
Nth(S, k) == CHOOSE x \in S : Cardinality({y \in S : y <= x}) = k

\* file.readlines(): every line keeps its newline, the last one may lack it
ReadLines(text) ==
    LET ends == {i \in 1..Len(text) : text[i] = "\n" \/ i = Len(text)}
    IN  [k \in 1..Cardinality(ends) |->
            SubSeq(text, IF k = 1 THEN 1 ELSE Nth(ends, k - 1) + 1, Nth(ends, k))]

\* str.split(): the maximal runs of non-whitespace characters
IsSpace(c) == c \in {" ", "\t", "\n"}
RECURSIVE FieldsFrom(_, _)
FieldsFrom(line, i) ==
    IF i > Len(line) THEN <<>>
    ELSE IF IsSpace(line[i]) THEN FieldsFrom(line, i + 1)
    ELSE LET j == CHOOSE k \in i..Len(line) :
                     /\ (k = Len(line) \/ IsSpace(line[k + 1]))
                     /\ \A m \in i..k : ~IsSpace(line[m])
         IN  <<SubSeq(line, i, j)>> \o FieldsFrom(line, j + 1)
Fields(line) == FieldsFrom(line, 1)

\* str.split(sep) for a one character separator
RECURSIVE SplitAt(_, _)
SplitAt(s, sep) ==
    IF \A i \in 1..Len(s) : s[i] # sep
    THEN <<s>>
    ELSE LET i == CHOOSE k \in 1..Len(s) :
                     s[k] = sep /\ \A j \in 1..(k - 1) : s[j] # sep
         IN  <<SubSeq(s, 1, i - 1)>> \o SplitAt(SubSeq(s, i + 1, Len(s)), sep)

\* ' '.join(fields)
RECURSIVE JoinSpace(_)
JoinSpace(fields) ==
    IF Len(fields) = 0 THEN <<>>
    ELSE IF Len(fields) = 1 THEN fields[1]
    ELSE fields[1] \o <<" ">> \o JoinSpace(Tail(fields))

\* the text of a file written line after line
RECURSIVE Concat(_)
Concat(lines) == IF Len(lines) = 0 THEN <<>> ELSE lines[1] \o Concat(Tail(lines))

\* re.match(line, '#'): the line is the pattern and '#' the text searched.  No
\* line of the files below holds a character that is special in a pattern,
\* so the line matches only when it is the text '#' itself
ReMatchHash(line) == line = <<"#">>

UuidPrefix == <<"UUID","=">>
DevPrefix == <<"/","dev">>
KeyNone == <<"none">>
KeyFalse == <<"false">>
KeyFile == <<"/","root","/","key">>
DefaultOptions == <<"luks">>

\* 'luks-%s UUID=%s %s %s\n' % (uuid, uuid, keyfile_entry, options)
EntryLine(uuid, keyfile_entry, options) ==
    <<"luks-">> \o uuid \o <<" ","UUID","=">> \o uuid \o <<" ">> \o keyfile_entry
    \o <<" ">> \o options \o <<"\n">>

\* variant of EntryOptions that writes the default for every line
EntryOptionsDefault(line_fields) == DefaultOptions
\* ' '.join(line_fields[3:]) if len(line_fields) > 3, else 'luks'
EntryOptions(line_fields) ==
    IF Len(line_fields) > 3
    THEN JoinSpace(SubSeq(line_fields, 4, Len(line_fields)))
    ELSE DefaultOptions

\* get_uuid_name_map(): device name to uuid, for the devices of the machine
DevSdd == <<"sdd">>
DevSde == <<"sde">>
UuidNameMap == [n \in {DevSdd, DevSde} |-> IF n = DevSdd THEN UuidA ELSE UuidB]

\* what update_crypttab decides for one line of the original: skip it, copy
\* it, update it, or raise; lookup: uuid_name_map was indexed for it
Verdict(verdict, lookup) == [verdict |-> verdict, lookup |-> lookup]
\* variant of SourceDevVerdict that takes every UUID= line for the target
SourceDevVerdictAny(source_dev_fields, uuid, lookup_ok) == Verdict("update", FALSE)
SourceDevVerdict(source_dev_fields, uuid, lookup_ok) ==
    LET dev_path == SplitAt(source_dev_fields[2], "/")
        dev_no_path == dev_path[Len(dev_path)]
    IN  IF Len(source_dev_fields) # 2 THEN Verdict("skip", FALSE)
        ELSE IF source_dev_fields[2] = uuid THEN Verdict("update", FALSE)
        ELSE IF ~StartsWith(source_dev_fields[2], DevPrefix) THEN Verdict("copy", FALSE)
        ELSE IF ~lookup_ok \/ dev_no_path \notin DOMAIN UuidNameMap
        THEN Verdict("raise", TRUE)
        ELSE IF UuidNameMap[dev_no_path] = uuid THEN Verdict("update", TRUE)
        ELSE Verdict("copy", TRUE)
LineVerdict(line, line_fields, uuid, lookup_ok) ==
    IF line = <<"\n">> \/ ReMatchHash(line) THEN Verdict("skip", FALSE)
    ELSE IF Len(line_fields) < 3 THEN Verdict("skip", FALSE)
    ELSE IF ~StartsWith(line_fields[2], UuidPrefix) THEN Verdict("copy", FALSE)
    ELSE SourceDevVerdict(SplitAt(line_fields[2], "="), uuid, lookup_ok)

\* variant of Replacement without the test for 'false'
ReplacementAlways(line_fields, uuid, keyfile_entry) ==
    EntryLine(uuid, keyfile_entry, EntryOptions(line_fields))
\* what is written in place of a line to update: nothing when keyfile_entry
\* is 'false', else the native entry with the options of the line
Replacement(line_fields, uuid, keyfile_entry) ==
    IF keyfile_entry = KeyFalse THEN <<>>
    ELSE EntryLine(uuid, keyfile_entry, EntryOptions(line_fields))

\* one turn of the loop: the verdict on the line and what it writes to the
\* temp file
LineEdit(line, line_fields, uuid, keyfile_entry, lookup_ok) ==
    CHOOSE e \in
        { [verdict |-> v.verdict, lookup |-> v.lookup,
           piece |-> CASE v.verdict = "copy" -> line
                       [] v.verdict = "update" ->
                             Replacement(line_fields, uuid, keyfile_entry)
                       [] OTHER -> <<>>] :
            v \in {LineVerdict(line, line_fields, uuid, lookup_ok)} } : TRUE

\* the loop over ct_original.readlines(): the temp file (out), whether
\* new_entry is not None, whether uuid_name_map was retrieved (lookups), and
\* whether a line raised, which ends the loop and the call
Rewritten(edits, keyfile_entry) ==
    [out |-> Concat([i \in DOMAIN edits |-> edits[i].piece]),
     new_entry |-> /\ keyfile_entry # KeyFalse
                   /\ \E i \in DOMAIN edits : edits[i].verdict = "update",
     lookups |-> IF \E i \in DOMAIN edits : edits[i].lookup THEN 1 ELSE 0,
     raised |-> \E i \in DOMAIN edits : edits[i].verdict = "raise"]
Rewrite(lines, uuid, keyfile_entry, lookup_ok) ==
    CHOOSE st \in
        { Rewritten(edits, keyfile_entry) :
            edits \in { [i \in DOMAIN fields |->
                           LineEdit(lines[i], fields[i], uuid, keyfile_entry, lookup_ok)] :
                        fields \in {[i \in 1..Len(lines) |-> Fields(lines[i])]} } } : TRUE

\* if keyfile_entry != 'false' and new_entry is None: write the native entry
Appended(st, uuid, keyfile_entry) ==
    IF keyfile_entry # KeyFalse /\ ~st.new_entry
    THEN st.out \o EntryLine(uuid, keyfile_entry, DefaultOptions)
    ELSE st.out

\* shutil.copy2(npath, CRYPTTABFILE): it copies; or it raises before opening
\* the destination; or it raises after opening (and so truncating) it
CopyOutcomes == {"copied", "unopened", "truncated"}
Returned(result, file, lookups) == [result |-> result, file |-> file, lookups |-> lookups]
Copy2(text, file, copy, lookups) ==
    CASE copy = "copied" -> Returned("True", [exists |-> TRUE, text |-> text], lookups)
      [] copy = "unopened" -> Returned("raised", file, lookups)
      [] OTHER -> Returned("raised", [exists |-> TRUE, text |-> <<>>], lookups)

\* variant of NewCrypttabSingleEntry that leaves the options column out
NewCrypttabBareEntry(file, uuid, keyfile_entry, copy) ==
    Copy2(<<"luks-">> \o uuid \o <<" ","UUID","=">> \o uuid \o <<" ">> \o keyfile_entry \o <<"\n">>,
          file, copy, 0)
NewCrypttabSingleEntry(file, uuid, keyfile_entry, copy) ==
    Copy2(EntryLine(uuid, keyfile_entry, DefaultOptions), file, copy, 0)

\* update_crypttab(uuid, keyfile_entry): uuid '' stands for None as well
UpdateCrypttab(file, uuid, keyfile_entry, lookup_ok, copy) ==
    IF uuid = <<>> THEN Returned("False", file, 0)
    ELSE IF ~file.exists
    THEN IF keyfile_entry = KeyFalse THEN Returned("True", file, 0)
         ELSE NewCrypttabSingleEntry(file, uuid, keyfile_entry, copy)
    ELSE CHOOSE r \in
            { IF st.raised THEN Returned("raised", file, st.lookups)
              ELSE Copy2(Appended(st, uuid, keyfile_entry), file, copy, st.lookups) :
                st \in { Rewrite(lines, uuid, keyfile_entry, lookup_ok) :
                            lines \in {ReadLines(file.text)} } } : TRUE

(***************************************************************************)
(* The crypttab files an installation can hold, and the calls made on them *)
(***************************************************************************)
CrypttabLines == <<
    \* the entry this program writes
    EntryLine(UuidA, KeyNone, DefaultOptions),
    \* an entry made by hand: own mapper name, options, irregular spacing
    <<"cr_home"," "," ","UUID","=">> \o UuidA \o <<" ","/","root","/","key"," ","discard","\t","noauto","\n">>,
    \* the entry the installer writes, three columns
    <<"luks-">> \o UuidB \o <<" ","UUID","=">> \o UuidB \o <<" ","none","\n">>,
    \* a device path entry; sdd is the container with UuidA
    <<"cr_sdd"," ","/","dev","/","sdd"," ","none","\n">>,
    \* the device path form the UUID= branch looks for
    <<"cr_sdd"," ","UUID","=","/","dev","/","sdd"," ","none"," ","luks","\n">>,
    \* remarks of one and of several words
    <<"#"," ","remark","\n">>,
    <<"#"," ","<name>"," ","<device>"," ","<password>"," ","<options>","\n">>,
    \* an entry commented out
    <<"#","luks-">> \o UuidB \o <<" ","UUID","=">> \o UuidB \o <<" ","none","\n">>,
    \* a blank line
    <<"\n">>,
    \* an entry whose UUID= column holds a second '='
    <<"bad"," ","UUID","=","x","=","y"," ","none","\n">>,
    \* an entry of two columns
    <<"swap"," ","/","dev","/","sda2","\n">>,
    \* a last line without newline
    <<"luks-">> \o UuidB \o <<" ","UUID","=">> \o UuidB \o <<" ","none">> >>

Containers == {UuidA, UuidB}
\* a remark: the first character is '#'
IsRemark(line) == Len(line) > 0 /\ line[1] = "#"
\* the container the second column of a line names: by UUID=<uuid>, or by the
\* path of its device, with or without UUID= in front; <<>> when it names none
SourceOf(line) ==
    LET f == Fields(line)
        source == IF StartsWith(f[2], UuidPrefix)
                  THEN SubSeq(f[2], Len(UuidPrefix) + 1, Len(f[2]))
                  ELSE f[2]
        path == SplitAt(source, "/")
        dev == path[Len(path)]
    IN  IF Len(f) < 2 THEN <<>>
        ELSE IF StartsWith(source, DevPrefix)
        THEN IF dev \in DOMAIN UuidNameMap THEN UuidNameMap[dev] ELSE <<>>
        ELSE IF StartsWith(f[2], UuidPrefix) THEN source
        ELSE <<>>
\* the container a line is an entry for; a remark is an entry for none
ContainerOf(line) == IF IsRemark(line) THEN <<>> ELSE SourceOf(line)
EntriesOf(text, uuid) ==
    {k \in 1..Len(ReadLines(text)) : ContainerOf(ReadLines(text)[k]) = uuid}

\* the files: absent, or up to MaxLines of the lines above, a line without
\* newline only at the end, and no container entered twice
InitialFiles ==
    {AbsentFile} \cup
    { [exists |-> TRUE, text |-> Concat([i \in DOMAIN s |-> CrypttabLines[s[i]]])] :
        s \in { t \in UNION {[1..n -> 1..Len(CrypttabLines)] : n \in 0..MaxLines} :
                  /\ \A i \in DOMAIN t : i < Len(t) => t[i] # Len(CrypttabLines)
                  /\ \A i, j \in DOMAIN t : i < j =>
                        \/ ContainerOf(CrypttabLines[t[i]]) = <<>>
                        \/ ContainerOf(CrypttabLines[t[i]]) # ContainerOf(CrypttabLines[t[j]]) } }

CrypttabInit ==
    /\ crypttab \in InitialFiles
    /\ tmp = {}
    /\ keyfile = AbsentFile
    /\ call = NoCall
    /\ db = [disks |-> <<>>, pools |-> {}]
    /\ tx = TxOf(db)
    /\ pc = "idle"
    /\ scan = <<>>
    /\ pre = db
    /\ last = NoRequest
    /\ passes = 0
    /\ requests = 0
    /\ arg = <<>>
    /\ ret = <<>>

UpdateCrypttabCall(uuid, keyfile_entry, lookup_ok, copy) ==
    \E r \in {UpdateCrypttab(crypttab, uuid, keyfile_entry, lookup_ok, copy)} :
        /\ crypttab' = r.file
        /\ call' = [op |-> "update_crypttab", uuid |-> uuid,
                    keyfile_entry |-> keyfile_entry, result |-> r.result,
                    before |-> crypttab, lookups |-> r.lookups]
        /\ UNCHANGED <<db, tx, pc, scan, pre, last, passes, requests, tmp, keyfile, fnVars>>

\* what the collaborators do during one call: at most one of them fails
Environments ==
    {[lookup_ok |-> TRUE, copy |-> c] : c \in CopyOutcomes}
    \cup {[lookup_ok |-> FALSE, copy |-> "copied"]}

CrypttabNext ==
    \E uuid \in Containers \cup {<<>>}, keyfile_entry \in {KeyNone, KeyFalse, KeyFile},
       env \in Environments :
        UpdateCrypttabCall(uuid, keyfile_entry, env.lookup_ok, env.copy)

CrypttabSpec == CrypttabInit /\ [][CrypttabNext]_vars

\* len(uuid_entry_fields[1]) == 36: of the texts that follow UUID= in the
\* lines above, the container uuids are the ones of 36 characters
Is36Long(s) == s \in Containers
\* the lines get_crypttab_entries stashes: three columns, the second one
\* UUID=<36 characters>
StashedLines(lines) ==
    {k \in DOMAIN lines :
        /\ lines[k] # <<"\n">> /\ ~ReMatchHash(lines[k])
        /\ Len(Fields(lines[k])) >= 3
        /\ StartsWith(Fields(lines[k])[2], UuidPrefix)
        /\ Len(SplitAt(Fields(lines[k])[2], "=")) = 2
        /\ Is36Long(SplitAt(Fields(lines[k])[2], "=")[2])}
\* get_crypttab_entries(): uuid to third column, a later line overwriting an
\* earlier one of the same uuid; the empty dictionary when the file is absent
GetCrypttabEntries(file) ==
    LET lines == IF file.exists THEN ReadLines(file.text) ELSE <<>>
        uuidOf(k) == SplitAt(Fields(lines[k])[2], "=")[2]
    IN  [uuid \in {uuidOf(k) : k \in StashedLines(lines)} |->
            LET final == CHOOSE k \in StashedLines(lines) :
                            /\ uuidOf(k) = uuid
                            /\ \A j \in StashedLines(lines) : uuidOf(j) = uuid => j <= k
            IN  Fields(lines[final])[3]]

(***************************************************************************)
(* update_crypttab step by step, with a reader of /etc/crypttab            *)
(***************************************************************************)
diskVars == <<db, tx, scan, pre, last, passes>>
EmptyFile == [exists |-> TRUE, text |-> <<>>]
\* a file made by mkstemp() in the function by, holding text
TempFile(by, text) == [by |-> by, text |-> text]
\* the text of the temp file of the running update_crypttab
TempText == (CHOOSE t \in tmp : t.by = "update_crypttab").text
Running(uuid, keyfile_entry) ==
    [op |-> "update_crypttab", uuid |-> uuid, keyfile_entry |-> keyfile_entry,
     result |-> "none", before |-> crypttab, lookups |-> 0]

\* the call up to mkstemp(): the returns that need no temp file, or the temp
\* file made and the path through the function chosen
Mkstemp(uuid, keyfile_entry) ==
    /\ pc = "idle"
    /\ Counted
    /\ IF uuid = <<>>
       THEN /\ call' = [Running(uuid, keyfile_entry) EXCEPT !.result = "False"]
            /\ UNCHANGED <<pc, tmp>>
       ELSE IF ~crypttab.exists /\ keyfile_entry = KeyFalse
       THEN /\ call' = [Running(uuid, keyfile_entry) EXCEPT !.result = "True"]
            /\ UNCHANGED <<pc, tmp>>
       ELSE /\ call' = Running(uuid, keyfile_entry)
            /\ tmp' = {TempFile("update_crypttab", <<>>)}
            /\ pc' = IF crypttab.exists THEN "rewrite" ELSE "single"
    /\ UNCHANGED <<diskVars, crypttab, keyfile, fnVars>>

\* the with block of update_crypttab: the loop and the pending entry.  An
\* exception (open() failing, or the lookup) leaves the function here
RewriteLines(read_ok, lookup_ok) ==
    /\ pc = "rewrite"
    /\ \E st \in {Rewrite(ReadLines(crypttab.text), call.uuid, call.keyfile_entry, lookup_ok)} :
          IF ~read_ok
          THEN /\ call' = [call EXCEPT !.result = "raised"]
               /\ pc' = "idle"
               /\ UNCHANGED tmp
          ELSE IF st.raised
          THEN /\ call' = [call EXCEPT !.result = "raised", !.lookups = st.lookups]
               /\ tmp' = {TempFile("update_crypttab", st.out)}
               /\ pc' = "idle"
          ELSE /\ call' = [call EXCEPT !.lookups = st.lookups]
               /\ tmp' = {TempFile("update_crypttab",
                                    Appended(st, call.uuid, call.keyfile_entry))}
               /\ pc' = "copy"
    /\ UNCHANGED <<diskVars, requests, crypttab, keyfile, fnVars>>

\* new_crypttab_single_entry: tempfo.write(crypttab_line), inside the try
WriteSingleEntry(write_ok) ==
    /\ pc = "single"
    /\ IF write_ok
       THEN /\ tmp' = {TempFile("update_crypttab",
                                 EntryLine(call.uuid, call.keyfile_entry, DefaultOptions))}
            /\ pc' = "copy"
            /\ UNCHANGED call
       ELSE /\ call' = [call EXCEPT !.result = "raised"]
            /\ pc' = "remove"
            /\ UNCHANGED tmp
    /\ UNCHANGED <<diskVars, requests, crypttab, keyfile, fnVars>>

\* shutil.copy2 opens the temp file, then /etc/crypttab for writing, which
\* empties it
CopyOpen(opened) ==
    /\ pc = "copy"
    /\ IF opened
       THEN /\ crypttab' = EmptyFile
            /\ pc' = "copying"
            /\ UNCHANGED call
       ELSE /\ call' = [call EXCEPT !.result = "raised"]
            /\ pc' = "remove"
            /\ UNCHANGED crypttab
    /\ UNCHANGED <<diskVars, requests, tmp, keyfile, fnVars>>

\* shutil.copy2 writes what it read from the temp file, and closes
CopyWrite(written) ==
    /\ pc = "copying"
    /\ IF written
       THEN /\ crypttab' = [crypttab EXCEPT !.text = TempText]
            /\ call' = [call EXCEPT !.result = "True"]
       ELSE /\ call' = [call EXCEPT !.result = "raised"]
            /\ UNCHANGED crypttab
    /\ pc' = "remove"
    /\ UNCHANGED <<diskVars, requests, tmp, keyfile, fnVars>>

\* finally: os.remove(npath), and the function returns or raises
RemoveTemp ==
    /\ pc = "remove"
    /\ tmp' = {}
    /\ pc' = "idle"
    /\ UNCHANGED <<diskVars, requests, crypttab, call, keyfile, fnVars>>

\* another process calls get_crypttab_entries(); arg: the file as it stood,
\* where the writer was, and the file the writer began with and has pending
ReadCrypttab ==
    /\ arg = <<>>
    /\ arg' = [file |-> crypttab, at |-> pc,
               before |-> IF pc = "idle" THEN crypttab ELSE call.before,
               pending |-> IF pc = "idle" THEN crypttab
                           ELSE [exists |-> TRUE, text |-> TempText]]
    /\ ret' = GetCrypttabEntries(crypttab)
    /\ UNCHANGED <<diskVars, pc, requests, luksVars>>

WriterInit ==
    /\ crypttab \in InitialFiles
    /\ tmp = {}
    /\ keyfile = AbsentFile
    /\ call = NoCall
    /\ db = [disks |-> <<>>, pools |-> {}]
    /\ tx = TxOf(db)
    /\ pc = "idle"
    /\ scan = <<>>
    /\ pre = db
    /\ last = NoRequest
    /\ passes = 0
    /\ requests = 0
    /\ arg = <<>>
    /\ ret = <<>>

WriterNext ==
    \/ \E uuid \in Containers \cup {<<>>}, keyfile_entry \in {KeyNone, KeyFalse, KeyFile} :
          Mkstemp(uuid, keyfile_entry)
    \/ \E read_ok, lookup_ok \in BOOLEAN : RewriteLines(read_ok, lookup_ok)
    \/ \E write_ok \in BOOLEAN : WriteSingleEntry(write_ok)
    \/ \E opened \in BOOLEAN : CopyOpen(opened)
    \/ \E written \in BOOLEAN : CopyWrite(written)
    \/ RemoveTemp
    \/ ReadCrypttab

WriterSpec == WriterInit /\ [][WriterNext]_vars

\* the call returned or raised
Exited == call.op = "update_crypttab" /\ pc = "idle"
Read == arg # <<>>

\* C21: a reader of the file during a call sees the content from before the
\* call or the content the call installs, never another
C21_ReaderSeesBeforeOrAfter ==
    (Read /\ arg.at # "idle") => arg.file \in {arg.before, arg.pending}

\* C22: when the call fails, the file holds the content from before the call
C22_FailureKeepsFile ==
    (Exited /\ call.result = "raised") => crypttab = call.before

\* C23: when the call is left, by return or by exception, no temp file is left
C23_NoTempFileLeft == Exited => tmp = {}

\* the lines the description of get_crypttab_entries counts for the uuid:
\* not blank, no remark, three columns, the second one UUID=<uuid>
EntryLinesFor(lines, uuid) ==
    {k \in DOMAIN lines :
        /\ lines[k] # <<"\n">>
        /\ lines[k][1] # "#"
        /\ Len(Fields(lines[k])) >= 3
        /\ Fields(lines[k])[2] = UuidPrefix \o uuid}

\* C24: get_crypttab_entries returns a key for a uuid exactly when a line that
\* is neither blank nor a remark has three columns and UUID=<uuid> for the
\* second, and the value is the third column of such a line
C24_KeysOfEntries ==
    Read =>
        \A uuid \in Containers :
            LET lines == IF arg.file.exists THEN ReadLines(arg.file.text) ELSE <<>>
            IN  /\ uuid \in DOMAIN ret <=> EntryLinesFor(lines, uuid) # {}
                /\ uuid \in DOMAIN ret =>
                      \E k \in EntryLinesFor(lines, uuid) : ret[uuid] = Fields(lines[k])[3]

(***************************************************************************)
(* Properties of delete and of the filesystem uuid a pass stores           *)
(***************************************************************************)
DeleteAnswered == last.op = "delete"
\* the positions of the records of that name before the request
NamedBefore == {i \in 1..Len(pre.disks) : pre.disks[i].name = last.target}

\* C29: a delete request removes a record only when it is offline: for an
\* online record the request fails and the inventory is unchanged; a request
\* that completes removed the one offline record of that name and nothing else
C29_DeleteOfflineOnly ==
    DeleteAnswered =>
        /\ (\E i \in NamedBefore : pre.disks[i].offline # TRUE) =>
              last.outcome = "failed"
        /\ last.outcome = "failed" => db = pre
        /\ last.outcome = "completed" =>
              \E i \in NamedBefore :
                  /\ NamedBefore = {i}
                  /\ pre.disks[i].offline = TRUE
                  /\ db.disks = [k \in 1..(Len(pre.disks) - 1) |->
                                    IF k < i THEN pre.disks[k] ELSE pre.disks[k + 1]]
                  /\ db.pools = pre.pools

\* an offline record was deleted from an inventory that held another record
C29_Witness ==
    /\ DeleteAnswered /\ last.outcome = "completed"
    /\ Len(pre.disks) >= 2
    /\ Len(db.disks) = Len(pre.disks) - 1

\* the devices of the scan with that serial
ScannedAs(serial) == {i \in 1..Len(scan) : scan[i].serial = serial}

\* C30 as stated: after a completed pass every record with a filesystem uuid
\* is the record of a scanned btrfs device, and the record of a scanned device
\* with no or another filesystem has none
C30_UuidOfNativeOnly_AsStated ==
    PassCompleted =>
        /\ \A k \in 1..Len(db.disks) :
              db.disks[k].btrfs_uuid # None =>
                  \E i \in ScannedAs(db.disks[k].serial) : scan[i].fstype = "btrfs"
        /\ \A i \in 1..Len(scan) :
              ((\A j \in ScannedAs(scan[i].serial) : j <= i) /\ scan[i].fstype # "btrfs") =>
                  \A k \in 1..Len(db.disks) :
                      db.disks[k].serial = scan[i].serial => db.disks[k].btrfs_uuid = None

\* C30 amended: after a completed pass every record that is not offline and
\* has a filesystem uuid is the record of a scanned btrfs device, and the
\* record of a scanned device with no or another filesystem has none; an
\* offline record keeps the uuid it had
C30_UuidOfNativeOnly ==
    PassCompleted =>
        /\ \A k \in 1..Len(db.disks) :
              (~db.disks[k].offline /\ db.disks[k].btrfs_uuid # None) =>
                  \E i \in ScannedAs(db.disks[k].serial) :
                      scan[i].fstype = "btrfs" /\ scan[i].uuid = db.disks[k].btrfs_uuid
        /\ \A i \in 1..Len(scan) :
              ((\A j \in ScannedAs(scan[i].serial) : j <= i) /\ scan[i].fstype # "btrfs") =>
                  \A k \in 1..Len(db.disks) :
                      db.disks[k].serial = scan[i].serial => db.disks[k].btrfs_uuid = None
        /\ \A k \in 1..Len(db.disks) :
              db.disks[k].offline =>
                  \E j \in 1..Len(pre.disks) :
                      /\ pre.disks[j].serial = db.disks[k].serial
                      /\ pre.disks[j].btrfs_uuid = db.disks[k].btrfs_uuid

\* a pass completed that stored the uuid of a btrfs device and blanked the
\* uuid a record held for a device now carrying another filesystem
C30_Witness ==
    /\ PassCompleted
    /\ \E k \in 1..Len(db.disks) : ~db.disks[k].offline /\ db.disks[k].btrfs_uuid # None
    /\ \E k \in 1..Len(db.disks), j \in 1..Len(pre.disks), i \in 1..Len(scan) :
          /\ pre.disks[j].serial = db.disks[k].serial
          /\ scan[i].serial = db.disks[k].serial
          /\ pre.disks[j].btrfs_uuid # None
          /\ db.disks[k].btrfs_uuid = None
          /\ scan[i].fstype \notin {None, "btrfs"}

(***************************************************************************)
(* Properties of update_crypttab                                           *)
(***************************************************************************)
Wrote == call.op = "update_crypttab" /\ call.uuid # <<>>
Succeeded == Wrote /\ call.result = "True"
Removal == call.keyfile_entry = KeyFalse
BeforeLines == ReadLines(call.before.text)
AfterLines == ReadLines(crypttab.text)
\* the column UUID=<uuid>
UuidField(uuid) == UuidPrefix \o uuid
SecondField(line) == IF Len(Fields(line)) >= 2 THEN Fields(line)[2] ELSE <<>>
\* every line of the text ends with a newline
Terminated(text) == Len(text) = 0 \/ text[Len(text)] = "\n"

\* C15: whatever calls were made, one at a time, on a file that was absent or
\* held at most one entry per container, the file holds at most one entry
\* per container
C15_OneEntryPerContainer ==
    \A uuid \in Containers : Cardinality(EntriesOf(crypttab.text, uuid)) <= 1

\* the second column of the line does not name the container the call was
\* made for
NotTarget(line) == SourceOf(line) # call.uuid
\* the line is one the rewrite takes for an entry: it has three columns, and
\* a UUID= column in it holds one '='
Viable(line) ==
    /\ Len(Fields(line)) >= 3
    /\ StartsWith(SecondField(line), UuidPrefix) => Len(SplitAt(SecondField(line), "=")) = 2
KeptLine(line) == NotTarget(line) /\ Viable(line)

C17_RemovalRemoves ==
    (Wrote /\ Removal /\ call.before.exists /\ call.result # "raised") =>
        /\ call.result = "True"
        /\ \A k \in DOMAIN AfterLines : SecondField(AfterLines[k]) # UuidField(call.uuid)
        /\ call.uuid \notin DOMAIN GetCrypttabEntries(crypttab)

\* the entry of the container was removed from a file holding other lines
C17_Witness ==
    /\ Succeeded /\ Removal /\ call.before.exists
    /\ call.uuid \in DOMAIN GetCrypttabEntries(call.before)
    /\ \E k \in DOMAIN BeforeLines : SecondField(BeforeLines[k]) = UuidField(call.uuid)
    /\ Len(AfterLines) >= 1

\* C18: a call with a value other than 'false' that succeeds on an absent or
\* empty file leaves the one line 'luks-<uuid> UUID=<uuid> <value> luks'; a
\* removal on an absent file returns True and the file stays absent
C18_FreshFile ==
    /\ ( /\ Succeeded /\ ~Removal
          /\ (~call.before.exists \/ call.before.text = <<>>) ) =>
            crypttab = [exists |-> TRUE,
                        text |-> <<"luks-">> \o call.uuid \o <<" ","UUID","=">>
                                 \o call.uuid \o <<" ">> \o call.keyfile_entry
                                 \o <<" ","luks","\n">>]
    /\ (Wrote /\ Removal /\ ~call.before.exists) =>
            call.result = "True" /\ crypttab = AbsentFile

\* a keyfile was entered for a container while the file was absent
C18_Witness ==
    /\ Succeeded /\ ~call.before.exists
    /\ call.keyfile_entry = KeyFile
    /\ crypttab.exists

\* the line holds a device path in its second column, of a device that is
\* the container uuid
DevicePathEntry(line, uuid) ==
    /\ Len(Fields(line)) >= 3
    /\ StartsWith(SecondField(line), DevPrefix)
    /\ ContainerOf(line) = uuid

\* C19: when the file holds a device path entry of the target container (and
\* no other entry of it), a call with a value replaces it: the one entry of
\* the container is then a UUID= line; a removal leaves no entry of it
C19_DevicePathNormalised ==
    ( /\ Succeeded /\ call.before.exists
      /\ Cardinality(EntriesOf(call.before.text, call.uuid)) = 1
      /\ \E i \in DOMAIN BeforeLines : DevicePathEntry(BeforeLines[i], call.uuid) ) =>
        IF Removal THEN EntriesOf(crypttab.text, call.uuid) = {}
        ELSE /\ Cardinality(EntriesOf(crypttab.text, call.uuid)) = 1
             /\ \A k \in EntriesOf(crypttab.text, call.uuid) :
                   SecondField(AfterLines[k]) = UuidField(call.uuid)

\* the position in the rewritten file of what is written for line i
WrittenUpTo(i) ==
    Cardinality({j \in 1..i :
        LineVerdict(BeforeLines[j], Fields(BeforeLines[j]), call.uuid, TRUE).verdict
            # "skip"})

\* C20: the line written in place of an entry UUID=<uuid> holds the columns
\* luks-<uuid>, UUID=<uuid>, <value> and then the columns of the original
\* beyond the third, in order, or the one column luks when it had three;
\* the columns are separated by one space
C20_ReplacementLine ==
    (Succeeded /\ ~Removal /\ call.before.exists) =>
        \A i \in DOMAIN BeforeLines :
            LET f == Fields(BeforeLines[i])
                columns == << <<"luks-">> \o call.uuid, UuidField(call.uuid),
                              call.keyfile_entry >>
                           \o (IF Len(f) > 3 THEN SubSeq(f, 4, Len(f)) ELSE << <<"luks">> >>)
            IN  (Len(f) >= 3 /\ f[2] = UuidField(call.uuid)) =>
                    AfterLines[WrittenUpTo(i)] = JoinSpace(columns) \o <<"\n">>

\* an entry with two option columns, after other lines, was given a keyfile
C20_Witness ==
    /\ Succeeded /\ ~Removal /\ call.before.exists
    /\ \E i \in DOMAIN BeforeLines :
          /\ i > 1
          /\ Len(Fields(BeforeLines[i])) = 5
          /\ SecondField(BeforeLines[i]) = UuidField(call.uuid)
          /\ Fields(BeforeLines[i])[3] # call.keyfile_entry

(***************************************************************************)
(* Keyfiles and passphrase files: create_keyfile, add_keyfile,             *)
(* luks_format_disk                                                        *)
(***************************************************************************)
\* what dd reads from /dev/urandom: never the same bytes twice
Key1 == <<"urandom-1">>
Key2 == <<"urandom-2">>

\* run_command: it raised, or the exit status of the tool and its output
Ran(raised, rc, out) == [raised |-> raised, rc |-> rc, out |-> out]
DdOutcomes == {Ran(FALSE, 0, Key1), Ran(FALSE, 0, Key2), Ran(FALSE, 1, <<>>),
               Ran(TRUE, 0, <<>>)}
ToolOutcomes == {Ran(FALSE, rc, <<>>) : rc \in 0..6} \cup {Ran(TRUE, 0, <<>>)}

KeyfileCreated(result, file, left, ran) ==
    [result |-> result, keyfile |-> file, left |-> left, ran |-> ran]

\* create_keyfile from mkstemp() on.  When open(npath, 'w') raises,
\* temp_keyfile is unbound, temp_keyfile.close() in the finally clause raises
\* and os.remove is not reached
GenerateKeyfile(file, open_ok, dd, copy) ==
    IF ~open_ok
    THEN KeyfileCreated("raised", file, {TempFile("create_keyfile", <<>>)}, FALSE)
    ELSE IF dd.raised THEN KeyfileCreated("raised", file, {}, TRUE)
    ELSE IF dd.rc # 0 THEN KeyfileCreated("False", file, {}, TRUE)
    ELSE CASE copy = "copied" ->
                KeyfileCreated("True", [exists |-> TRUE, text |-> dd.out], {}, TRUE)
           [] copy = "unopened" -> KeyfileCreated("raised", file, {}, TRUE)
           [] OTHER -> KeyfileCreated("raised", EmptyFile, {}, TRUE)

\* variant of CreateKeyfile without the test for an existing file
CreateKeyfileAlways(file, open_ok, dd, copy) == GenerateKeyfile(file, open_ok, dd, copy)

\* create_keyfile(keyfile_withpath)
CreateKeyfile(file, open_ok, dd, copy) ==
    IF file.exists THEN KeyfileCreated("True", file, {}, FALSE)
    ELSE GenerateKeyfile(file, open_ok, dd, copy)

CmdAddKey == <<"/usr/sbin/cryptsetup", "luksAddKey", "/dev/disk/by-id/dev",
               "/root/keyfile", "--key-file", "npath">>
CmdFormat == <<"/usr/sbin/cryptsetup", "luksFormat", "/dev/disk/by-id/dev", "npath">>

\* variant of MessagePrefix that tells no exit status from another
MessagePrefixGeneric(rc) == "Exception"

\* the message begun for the exit status of cryptsetup luksAddKey
MessagePrefix(rc) ==
    CASE rc = 1 -> "Wrong Parameters exception"
      [] rc = 2 -> "No Permission (Bad Passphrase) exception"
      [] rc = 3 -> "Out of Memory exception"
      [] rc = 4 -> "Wrong Device Specified"
      [] rc = 5 -> "Device already exists or device is busy"
      [] OTHER -> "Exception"

\* the text of an exception: its words, and the command and the exit status
\* it names (<<>> and 0 when it names none)
ExceptionStr(text, cmd, rc) == [text |-> text, cmd |-> cmd, rc |-> rc]
\* CommandException.__str__()
CommandExceptionStr(cmd, rc) == ExceptionStr("Error running a command.", cmd, rc)
OsError == ExceptionStr("OSError", <<>>, 0)
\* the message of the exception a function raises: how it begins, the command
\* it names, and the text of the exception it was made for
Message(prefix, cmd, e) == [prefix |-> prefix, cmd |-> cmd, e |-> e]
NoMessage == Message("", <<>>, ExceptionStr("", <<>>, 0))
\* msg += ' while running command(%s): %s' % (cmd, e.__str__())
RunMessage(rc, cmd, e) == Message(MessagePrefix(rc), cmd, e)
\* python's exception for a local variable read before it was assigned
UnboundLocal == Message("UnboundLocalError", <<>>, ExceptionStr("", <<>>, 0))

KeyAdded(result, message, file, left, made, run, ran) ==
    [result |-> result, message |-> message, keyfile |-> file, left |-> left,
     made |-> made, run |-> run, ran |-> ran]

\* add_keyfile from mkstemp() on.  When open(npath, 'w') raises, the except
\* clause reads cmd, which is unbound, and the finally clause
\* passphrase_file_object, which is unbound too: os.remove is not reached.
\* When write() raises, the file object is bound: the finally clause removes
RegisterKeyfile(file, open_ok, write_ok, run) ==
    IF ~open_ok
    THEN KeyAdded("raised", UnboundLocal, file, {TempFile("add_keyfile", <<>>)},
                  TRUE, run, FALSE)
    ELSE IF ~write_ok THEN KeyAdded("raised", UnboundLocal, file, {}, TRUE, run, FALSE)
    ELSE IF run.raised
    THEN KeyAdded("raised", RunMessage(0, CmdAddKey, OsError), file, {}, TRUE, run, TRUE)
    ELSE IF run.rc # 0
    THEN KeyAdded("raised", RunMessage(run.rc, CmdAddKey,
                                       CommandExceptionStr(CmdAddKey, run.rc)),
                  file, {}, TRUE, run, TRUE)
    ELSE KeyAdded("True", NoMessage, file, {}, TRUE, run, TRUE)

\* add_keyfile(dev_byid, keyfile_withpath, passphrase); created: what
\* create_keyfile does when it is called
AddKeyfile(file, created, open_ok, write_ok, run) ==
    IF ~file.exists /\ created.result = "raised"
    THEN KeyAdded("raised", Message("Exception while creating keyfile", <<>>, OsError),
                  created.keyfile, created.left, FALSE, run, FALSE)
    ELSE IF ~file.exists /\ created.result = "False"
    THEN KeyAdded("False", NoMessage, created.keyfile, created.left, FALSE, run, FALSE)
    ELSE RegisterKeyfile(IF file.exists THEN file ELSE created.keyfile,
                         open_ok, write_ok, run)

\* luks_format_disk(disk_byid, passphrase): run_command raises on a non-zero
\* exit status; the clauses are those of add_keyfile
LuksFormatDisk(file, open_ok, write_ok, run) ==
    IF ~open_ok
    THEN KeyAdded("raised", UnboundLocal, file, {TempFile("luks_format_disk", <<>>)},
                  TRUE, run, FALSE)
    ELSE IF ~write_ok THEN KeyAdded("raised", UnboundLocal, file, {}, TRUE, run, FALSE)
    ELSE IF run.raised \/ run.rc # 0
    THEN KeyAdded("raised",
                  Message("Exception", CmdFormat,
                          IF run.raised THEN OsError
                          ELSE CommandExceptionStr(CmdFormat, run.rc)),
                  file, {}, TRUE, run, TRUE)
    ELSE KeyAdded("returned", NoMessage, file, {}, TRUE, run, TRUE)

KeyInit ==
    /\ keyfile \in {AbsentFile, [exists |-> TRUE, text |-> Key1]}
    /\ tmp = {}
    /\ call = NoCall
    /\ crypttab = AbsentFile
    /\ db = [disks |-> <<>>, pools |-> {}]
    /\ tx = TxOf(db)
    /\ pc = "idle"
    /\ scan = <<>>
    /\ pre = db
    /\ last = NoRequest
    /\ passes = 0
    /\ requests = 0
    /\ arg = <<>>
    /\ ret = <<>>

\* one call of a function of this section is made and left; dd: what the
\* random-byte tool does when the call runs it
Called(op, r, dd) ==
    /\ requests < MaxCalls
    /\ requests' = requests + 1
    /\ keyfile' = r.keyfile
    /\ tmp' = tmp \cup r.left
    /\ call' = [op |-> op, prev |-> call.op, before |-> keyfile, result |-> r.result,
                message |-> r.message, left |-> r.left, made |-> r.made,
                run |-> r.run, ran |-> r.ran, dd |-> dd]
    /\ UNCHANGED <<diskVars, pc, crypttab, fnVars>>

CreateKeyfileCall(open_ok, dd, copy) ==
    \E c \in {CreateKeyfile(keyfile, open_ok, dd, copy)} :
        Called("create_keyfile",
               KeyAdded(c.result, NoMessage, c.keyfile, c.left, ~keyfile.exists, dd, c.ran),
               dd)

AddKeyfileCall(created_open_ok, dd, copy, open_ok, write_ok, run) ==
    \E r \in {AddKeyfile(keyfile, CreateKeyfile(keyfile, created_open_ok, dd, copy),
                          open_ok, write_ok, run)} :
        Called("add_keyfile", r, dd)

LuksFormatDiskCall(open_ok, write_ok, run) ==
    \E r \in {LuksFormatDisk(keyfile, open_ok, write_ok, run)} :
        Called("luks_format_disk", r, Ran(FALSE, 0, <<>>))

\* what the files and the tools do during one call: at most one step fails
KeyEnvironments ==
    LET Env(co, dd, copy, o, w) ==
            [created_open_ok |-> co, dd |-> dd, copy |-> copy, open_ok |-> o, write_ok |-> w]
        Fine == Ran(FALSE, 0, Key2)
    IN  {Env(TRUE, dd, "copied", TRUE, TRUE) : dd \in DdOutcomes}
        \cup {Env(TRUE, Fine, copy, TRUE, TRUE) : copy \in CopyOutcomes}
        \cup {Env(FALSE, Fine, "copied", TRUE, TRUE), Env(TRUE, Fine, "copied", FALSE, TRUE),
              Env(TRUE, Fine, "copied", TRUE, FALSE)}

KeyNext ==
    \/ \E env \in KeyEnvironments : CreateKeyfileCall(env.created_open_ok, env.dd, env.copy)
    \/ \E env \in KeyEnvironments, run \in ToolOutcomes :
          AddKeyfileCall(env.created_open_ok, env.dd, env.copy,
                         env.open_ok, env.write_ok, run)
    \/ \E env \in KeyEnvironments, run \in ToolOutcomes :
          LuksFormatDiskCall(env.open_ok, env.write_ok, run)

KeySpec == KeyInit /\ [][KeyNext]_vars

\* C25: whatever way add_keyfile is left after it made the passphrase file,
\* no temp file made by add_keyfile exists
C25_PassphraseFileRemoved == \A t \in tmp : t.by # "add_keyfile"

\* the tool ran and exited with a status other than 0
ToolFailed == call.op = "add_keyfile" /\ call.ran /\ ~call.run.raised /\ call.run.rc # 0
\* C26: when cryptsetup luksAddKey exits with a status other than 0,
\* add_keyfile raises; the message begins with the text of the status (1 to
\* 5 each their own, any other the generic one) and holds the command and
\* the status
C26_MessageOfExitStatus ==
    /\ ToolFailed =>
          /\ call.result = "raised"
          /\ call.message.prefix =
                (CASE call.run.rc = 1 -> "Wrong Parameters exception"
                   [] call.run.rc = 2 -> "No Permission (Bad Passphrase) exception"
                   [] call.run.rc = 3 -> "Out of Memory exception"
                   [] call.run.rc = 4 -> "Wrong Device Specified"
                   [] call.run.rc = 5 -> "Device already exists or device is busy"
                   [] OTHER -> "Exception")
          /\ call.message.cmd = CmdAddKey
          /\ call.message.e.rc = call.run.rc
    /\ \A a, b \in 1..5 : a # b => MessagePrefix(a) # MessagePrefix(b)

\* the tool refused the passphrase
C26_Witness ==
    /\ ToolFailed /\ call.run.rc = 2
    /\ call.message.prefix = "No Permission (Bad Passphrase) exception"

\* C27: create_keyfile on a path where a file exists returns True, does not
\* run dd and leaves the file as it is
C27_ExistingKeyfileKept ==
    (call.op = "create_keyfile" /\ call.before.exists) =>
        /\ call.result = "True"
        /\ ~call.ran
        /\ keyfile = call.before

\* create_keyfile was called twice: the first call made the keyfile, the
\* second left it
C27_Witness ==
    /\ call.op = "create_keyfile" /\ call.prev = "create_keyfile"
    /\ call.before = [exists |-> TRUE, text |-> Key2]
    /\ keyfile = call.before
    /\ call.result = "True"

\* C28: whatever way luks_format_disk is left, no temp file made by it exists
C28_FormatPassphraseFileRemoved == \A t \in tmp : t.by # "luks_format_disk"

(***************************************************************************)
(* Properties of the pools, names and roles a pass leaves                  *)
(***************************************************************************)
\* C31: after a completed pass the record of every scanned root device is
\* attached to the pool named by the device's label and that pool has role
\* 'root'; every pool the pass created carries the label of a scanned root
\* device that no pool carried before, and no two pools carry one name
C31_RootPool ==
    PassCompleted =>
        /\ \A j \in 1..Len(scan) :
              (scan[j].root /\ Decides(j)) =>
                  /\ \E i \in 1..Len(db.disks) :
                        /\ db.disks[i].serial = scan[j].serial
                        /\ db.disks[i].pool = scan[j].label
                  /\ \E p \in db.pools : p.name = scan[j].label /\ p.role = "root"
        /\ \A p \in db.pools :
              p.name \notin PoolNames(pre.pools) =>
                  \E j \in 1..Len(scan) : scan[j].root /\ scan[j].label = p.name
        /\ \A p, q \in db.pools : p.name = q.name => p = q

\* a pass completed that created the pool of the root device while another
\* scanned device carried a label no pool has
C31_Witness ==
    /\ PassCompleted
    /\ \E j, k \in 1..Len(scan) :
          /\ scan[j].root /\ scan[j].label \notin PoolNames(pre.pools)
          /\ ~scan[k].root /\ scan[k].label # None
          /\ scan[k].label \notin PoolNames(pre.pools)
    /\ \E p \in db.pools : p.role = "root"

IsPlaceholder(name) == \E k \in 1..Len(HexDigits) : name = Placeholder(k)
\* the resolver gives scanned devices of different serials different names
ResolverInjective ==
    \A j, k \in 1..Len(scan) :
        scan[j].serial # scan[k].serial =>
            GetDevByIdName(scan[j].name)[1] # GetDevByIdName(scan[k].name)[1]

\* C32: between the scrub and the upsert phase every record holds a
\* placeholder name that no record had before the pass; after a completed
\* pass every offline record holds such a name, and the names of all records
\* are pairwise distinct when the resolver names distinct devices distinctly
C32_NoStaleName ==
    /\ (last.op = "scan" /\ pc = "upsert") =>
          \A i \in 1..Len(tx.disks) :
              IsPlaceholder(tx.disks[i].name) /\ tx.disks[i].name \notin NamesOf(pre.disks)
    /\ PassCompleted =>
          /\ \A i \in 1..Len(db.disks) :
                db.disks[i].offline =>
                    /\ IsPlaceholder(db.disks[i].name)
                    /\ db.disks[i].name \notin NamesOf(pre.disks)
          /\ ResolverInjective =>
                \A i, k \in 1..Len(db.disks) :
                    i # k => db.disks[i].name # db.disks[k].name

\* a pass completed that found one named disk missing and another attached,
\* the inventory already holding a placeholder name
C32_Witness ==
    /\ PassCompleted
    /\ \E i, k \in 1..Len(db.disks) :
          /\ db.disks[i].offline /\ ~db.disks[k].offline
          /\ \E n \in 1..Len(pre.disks) :
                /\ pre.disks[n].serial = db.disks[i].serial
                /\ IsPlaceholder(pre.disks[n].name)
          /\ \E n \in 1..Len(pre.disks) :
                /\ pre.disks[n].serial = db.disks[k].serial
                /\ ~IsPlaceholder(pre.disks[n].name)

IsLegacy(role) == role.tag = "text" /\ role.text \in LegacyRoles

\* C33: a kept record whose role column held a legacy string and whose
\* serial is scanned ends a completed pass with exactly the role kinds and
\* values the scan derives, the column being null when it derives none; and
\* the upsert phase fails only on a role text that is not a legacy string
C33_LegacyRoleSuperseded ==
    /\ PassCompleted =>
          \A n \in 1..Len(pre.disks) : \A j \in 1..Len(scan) :
              ( /\ IsLegacy(pre.disks[n].role)
                /\ FirstOfSerial(pre.disks, n)
                /\ Decides(j)
                /\ scan[j].serial = pre.disks[n].serial ) =>
                  LET role == RecordOf(db.disks, scan[j].serial).role
                      derived == {kind \in ScannerKinds : ScannerCondition(kind, scan[j])}
                  IN  /\ role.tag = (IF derived = {} THEN "null" ELSE "json")
                      /\ RoleKinds(role) = derived
                      /\ \A kind \in derived :
                            role.dict[kind] = DiskRolesIdentified(scan[j])[kind]
    /\ (PassFailed /\ last.cause = "upsert") =>
          \E n \in 1..Len(pre.disks) :
              /\ pre.disks[n].serial \in ScanSerials
              /\ pre.disks[n].role.tag = "text"
              /\ ~IsLegacy(pre.disks[n].role)

\* a pass completed over an attached disk whose role column held a legacy
\* string, the scan deriving roles for it
C33_Witness ==
    /\ PassCompleted
    /\ \E n \in 1..Len(pre.disks) :
          /\ IsLegacy(pre.disks[n].role)
          /\ pre.disks[n].serial \in ScanSerials
          /\ RoleKinds(RecordOf(db.disks, pre.disks[n].serial).role) # {}

(***************************************************************************)
(* Properties of the role column and of the pool import                    *)
(***************************************************************************)
\* C34: whatever requests were answered on the inventory a pass left, no
\* record's role column holds an empty role map
C34_NoEmptyRoleMap ==
    \A i \in 1..Len(db.disks) :
        db.disks[i].role.tag = "json" => ~IsEmptyDict(db.disks[i].role.dict)

ImportAnswered == last.op = "btrfs-disk-import"
\* the record a member of the imported pool names, before the request
MemberIdx(device) ==
    {i \in 1..Len(pre.disks) : pre.disks[i].name = ReverseRoleFilterName(device)[1]}

\* C40: an import whose request is valid, whose collaborators do not fail and
\* whose members all name records with no role or a role map completes; the
\* record of a partition member is attached to the pool with parted true and
\* the member as its redirect, its other role entries kept; the record of a
\* whole-disk member is attached with parted false and its role unchanged
C40_ImportRedirects ==
    ( /\ ImportAnswered
      /\ last.data.ok
      /\ Cardinality(TargetIdx) = 1
      /\ RoleFilterDiskName(Target).ok
      /\ \A m \in DOMAIN last.data.p_info.disks :
            \E i \in MemberIdx(last.data.p_info.disks[m]) :
                pre.disks[i].role.tag # "text" ) =>
        /\ last.outcome = "completed"
        /\ \A m \in DOMAIN last.data.p_info.disks :
              LET device == last.data.p_info.disks[m]
                  reversed == ReverseRoleFilterName(device)
              IN  \A i \in MemberIdx(device) :
                      /\ db.disks[i].name = reversed[1]
                      /\ db.disks[i].pool = last.data.p_info.label
                      /\ db.disks[i].parted = reversed[2]
                      /\ IF reversed[2]
                         THEN /\ db.disks[i].role.tag = "json"
                              /\ db.disks[i].role.dict["redirect"] = device
                              /\ DictWithout(db.disks[i].role.dict, {"redirect"}) =
                                     DictWithout(pre.disks[i].role.dict, {"redirect"})
                         ELSE db.disks[i].role = pre.disks[i].role

(***************************************************************************)
(* Properties of a completed wipe                                          *)
(***************************************************************************)
WipeCompleted == last.op = "wipe" /\ last.outcome = "completed"
\* the name the wipe is to address: the redirect value when the target's
\* role set has one, the target's own name otherwise
EffectiveName ==
    IF "redirect" \in RoleKinds(Target.role) THEN Target.role.dict["redirect"]
    ELSE Target.name

\* C35: a completed wipe called wipe_disk once, with the redirect value of
\* the target when it has one and with its name otherwise; the target then
\* has parted equal to the partition verdict of reversing that name and no
\* filesystem uuid, every other field of it and every other record being as
\* before
C35_WipeEffect ==
    WipeCompleted =>
        /\ Cardinality(TargetIdx) = 1
        /\ last.wiped = <<EffectiveName>>
        /\ Len(db.disks) = Len(pre.disks)
        /\ \A i \in 1..Len(pre.disks) :
              IF i \in TargetIdx
              THEN db.disks[i] =
                       [pre.disks[i] EXCEPT
                           !.parted = ReverseRoleFilterName(EffectiveName)[2],
                           !.btrfs_uuid = None]
              ELSE db.disks[i] = pre.disks[i]
        /\ db.pools = pre.pools

\* a wipe completed on a disk with a redirect role that held a filesystem
\* uuid and was not marked partitioned
C35_Witness ==
    /\ WipeCompleted
    /\ "redirect" \in RoleKinds(Target.role)
    /\ Target.btrfs_uuid # None
    /\ ~Target.parted
    /\ last.wiped = <<Target.role.dict["redirect"]>>

(***************************************************************************)
(* Properties of the pool reference a pass stores                          *)
(***************************************************************************)
\* the pool names that exist when the upsert phase reaches scan entry j:
\* those from before the pass and those created for earlier root devices
KnownAt(j) ==
    PoolNames(pre.pools) \cup {scan[k].label : k \in {n \in 1..(j - 1) : scan[n].root}}

\* C39: after a completed pass the record of a scanned device references the
\* pool named by the device's label when that pool exists at the device's
\* turn or the device is the root device, and no pool otherwise, whatever it
\* referenced before; a kept record whose serial is not scanned references
\* the pool it referenced before the pass
C39_PoolFromScan ==
    PassCompleted =>
        /\ \A j \in 1..Len(scan) :
              Decides(j) =>
                  RecordOf(db.disks, scan[j].serial).pool =
                      (IF scan[j].label \in KnownAt(j) \/ scan[j].root
                       THEN scan[j].label ELSE None)
        /\ \A n \in 1..Len(pre.disks) :
              ( /\ FirstOfSerial(pre.disks, n)
                /\ ~IsFakeSerial(pre.disks[n].serial)
                /\ pre.disks[n].serial \notin ScanSerials ) =>
                  RecordOf(db.disks, pre.disks[n].serial).pool = pre.disks[n].pool

\* a pass completed over an attached disk that is not the root disk, whose
\* label names no pool and whose record referenced a pool
C39_Witness ==
    /\ PassCompleted
    /\ \E n \in 1..Len(pre.disks) : \E j \in 1..Len(scan) :
          /\ pre.disks[n].pool # None
          /\ scan[j].serial = pre.disks[n].serial
          /\ ~scan[j].root
          /\ scan[j].label \notin PoolNames(db.pools)
          /\ RecordOf(db.disks, scan[j].serial).pool = None

(***************************************************************************)
(* Writing an entry of /etc/crypttab and reading it back                   *)
(***************************************************************************)
\* no line of the file before the call names the container of the call
NoLineMatched == \A k \in DOMAIN BeforeLines : NotTarget(BeforeLines[k])
\* the same call made again, no collaborator failing
Repeated == UpdateCrypttab(crypttab, call.uuid, call.keyfile_entry, TRUE, "copied")

\* C36: after a call with a value other than 'false' that returned True,
\* get_crypttab_entries maps the uuid to the value; when no line named the
\* container, the file is the lines copied from the former file followed by
\* the one line 'luks-<uuid> UUID=<uuid> <value> luks'; and the same call
\* made again returns True and leaves the file as it is
C36_WriteThenRead ==
    (Succeeded /\ ~Removal) =>
        /\ call.uuid \in DOMAIN GetCrypttabEntries(crypttab)
        /\ GetCrypttabEntries(crypttab)[call.uuid] = call.keyfile_entry
        /\ (call.before.exists /\ NoLineMatched) =>
              /\ Len(AfterLines) >= 1
              /\ AfterLines[Len(AfterLines)] =
                     EntryLine(call.uuid, call.keyfile_entry, DefaultOptions)
              /\ SubSeq(AfterLines, 1, Len(AfterLines) - 1) =
                     SelectSeq(BeforeLines, Viable)
        /\ Repeated.result = "True"
        /\ Repeated.file = crypttab

(***************************************************************************)
(* Properties of create_keyfile as called alone and by add_keyfile         *)
(***************************************************************************)
\* the call found no keyfile and dd exited with a status other than 0
DdFailed(op) ==
    call.op = op /\ ~call.before.exists /\ ~call.dd.raised /\ call.dd.rc # 0

\* C37: no temp file made by create_keyfile exists once the call is left;
\* when dd exits with a status other than 0, create_keyfile returns False
\* and no keyfile exists, and add_keyfile returns False without having run
\* cryptsetup luksAddKey
C37_KeyfileTempRemoved ==
    /\ \A t \in tmp : t.by # "create_keyfile"
    /\ DdFailed("create_keyfile") => (call.result = "False" /\ ~keyfile.exists)
    /\ DdFailed("add_keyfile") =>
          (call.result = "False" /\ ~call.ran /\ ~keyfile.exists)

(***************************************************************************)
(* get_unlocked_luks_containers_uuids and get_open_luks_container_dev.  A  *)
(* mapped name is a sequence of words; a line of tool output is the        *)
(* sequence of its columns                                                 *)
(***************************************************************************)
\* len(each_line) == 41
ConventionLength == 41
RECURSIVE NameLength(_)
NameLength(name) == IF Len(name) = 0 THEN 0 ELSE Len(name[1]) + NameLength(Tail(name))

\* what 'cryptsetup status <name>' prints for an active volume on dev
StatusActive(dev) ==
    << << <<"/dev/mapper/name">>, <<"is">>, <<"active.">> >>,
       << <<"type:">>, <<"LUKS1">> >>,
       << <<"device:">>, dev >>,
       << <<"offset:">>, <<"4096">>, <<"sectors">> >>,
       << >> >>
StatusInactive == << << <<"/dev/mapper/name">>, <<"is">>, <<"inactive.">> >> >>

\* the mapped volumes dmsetup can list, each with the exit status and the
\* output of cryptsetup status for it
Volume(name, rc, out) == [name |-> name, rc |-> rc, out |-> out]
Volumes == <<
    \* two volumes named by the convention
    Volume(<<"luks-">> \o UuidA, 0, StatusActive(<<"/","dev","/","sdd">>)),
    Volume(<<"luks-">> \o UuidB, 0, StatusActive(<<"/","dev","/","sde">>)),
    \* a volume opened by hand under its own name
    Volume(<<"cr_home">>, 0, StatusActive(<<"/","dev","/","sdd">>)),
    \* a name that begins like the convention and is shorter
    Volume(<<"luks-", "home">>, 0, StatusActive(<<"/","dev","/","sde">>)),
    \* a name as long as the convention that begins otherwise, on a device
    \* that went away: cryptsetup status fails
    Volume(<<"data-">> \o UuidA, 4, <<>>),
    \* a volume cryptsetup reports no device for
    Volume(<<"cr_gone">>, 0, StatusInactive),
    \* a volume on a device that has no entry in the uuid map
    Volume(<<"cr_swap">>, 0, StatusActive(<<"/","dev","/","sdx">>)),
    \* an empty line of output
    Volume(<<>>, 4, <<>>) >>

VolumeOf(name) == Volumes[CHOOSE i \in 1..Len(Volumes) : Volumes[i].name = name]

\* get_open_luks_container_dev(mapped_device_name): '' is <<>>
RECURSIVE DeviceLine(_, _)
DeviceLine(out, i) ==
    IF i > Len(out) THEN <<>>
    ELSE LET line_fields == out[i]
         IN  IF Len(line_fields) < 2 THEN DeviceLine(out, i + 1)
             ELSE IF StartsWith(line_fields[1], <<"device:">>) THEN line_fields[2]
             ELSE DeviceLine(out, i + 1)
GetOpenLuksContainerDev(mapped_device_name) ==
    LET status == VolumeOf(mapped_device_name)
    IN  IF status.rc # 0 THEN <<>> ELSE DeviceLine(status.out, 1)

\* len(each_line) == 41 and re.match('luks-', each_line)
NamedByConvention(each_line) ==
    NameLength(each_line) = ConventionLength /\ StartsWith(each_line, <<"luks-">>)

\* variant of MapWanted that fetches the map for every name
MapWantedAlways(uuid_name_map_retrieved) == TRUE

\* if not uuid_name_map_retrieved
MapWanted(uuid_name_map_retrieved) == ~uuid_name_map_retrieved

\* one iteration of "for each_line in out"; st = [uuids, from, retrieved,
\* fetched, status, raised]: the list built, the line each uuid came from,
\* the flag, the lines at which get_uuid_name_map and cryptsetup status were
\* called, and whether uuid_name_map[container_dev] raised KeyError
UnlockedLine(st, out, k) ==
    LET each_line == out[k]
        container_dev == GetOpenLuksContainerDev(each_line)
        dev == SplitAt(container_dev, "/")[Len(SplitAt(container_dev, "/"))]
        fetched == IF MapWanted(st.retrieved) THEN Append(st.fetched, k) ELSE st.fetched
    IN  IF st.raised \/ each_line = <<>> THEN st
        ELSE IF NamedByConvention(each_line)
        \* each_line[5:]
        THEN [st EXCEPT !.uuids = Append(@, Tail(each_line)), !.from = Append(@, k)]
        \* "container_dev is not ''": the empty text is the one the function
        \* returns from its own literal
        ELSE IF container_dev = <<>> THEN [st EXCEPT !.status = Append(@, k)]
        ELSE IF dev \notin DOMAIN UuidNameMap
        THEN [st EXCEPT !.status = Append(@, k), !.retrieved = TRUE,
                        !.fetched = fetched, !.raised = TRUE]
        ELSE [st EXCEPT !.status = Append(@, k), !.retrieved = TRUE,
                        !.fetched = fetched,
                        !.uuids = Append(@, UuidNameMap[dev]), !.from = Append(@, k)]

RECURSIVE UnlockedFrom(_, _, _)
UnlockedFrom(st, out, k) ==
    IF k > Len(out) THEN st ELSE UnlockedFrom(UnlockedLine(st, out, k), out, k + 1)

\* get_unlocked_luks_containers_uuids(); dmsetup: run_command raised, or
\* the lines it printed with exit status 0
GetUnlockedLuksContainersUuids(dmsetup) ==
    LET start == [uuids |-> <<>>, from |-> <<>>, retrieved |-> FALSE, fetched |-> <<>>,
                  status |-> <<>>, raised |-> dmsetup.raised]
    IN  IF dmsetup.raised THEN start ELSE UnlockedFrom(start, dmsetup.out, 1)

\* what dmsetup can print: up to MaxMapped of the names above, each once
DmsetupOutputs ==
    { [i \in DOMAIN s |-> Volumes[s[i]].name] :
        s \in { t \in UNION {[1..n -> 1..Len(Volumes)] : n \in 0..MaxMapped} :
                  \A i, j \in DOMAIN t : i # j => t[i] # t[j] } }

UnlockedInit ==
    /\ arg \in {[raised |-> FALSE, out |-> out] : out \in DmsetupOutputs}
              \cup {[raised |-> TRUE, out |-> <<>>]}
    /\ ret = <<>>
    /\ db = [disks |-> <<>>, pools |-> {}]
    /\ tx = TxOf(db)
    /\ pc = "idle"
    /\ scan = <<>>
    /\ pre = db
    /\ last = NoRequest
    /\ passes = 0
    /\ requests = 0
    /\ crypttab = AbsentFile
    /\ tmp = {}
    /\ keyfile = AbsentFile
    /\ call = NoCall

GetUnlockedCall ==
    /\ ret = <<>>
    /\ ret' = GetUnlockedLuksContainersUuids(arg)
    /\ UNCHANGED <<diskVars, pc, requests, luksVars, arg>>

UnlockedSpec == UnlockedInit /\ [][GetUnlockedCall]_vars

Enumerated == ret # <<>>
\* the name has 41 characters of which the first five are 'luks-'
Conventional(name) == NameLength(name) = 41 /\ Len(name) > 0 /\ name[1] = "luks-"
\* cryptsetup status names a device for the volume
HasBackingDevice(name) ==
    /\ VolumeOf(name).rc = 0
    /\ \E i \in DOMAIN VolumeOf(name).out :
          Len(VolumeOf(name).out[i]) >= 2 /\ VolumeOf(name).out[i][1] = <<"device:">>
\* the uuids the call has from line k of the output
FromLine(k) == SelectSeq([i \in DOMAIN ret.uuids |-> <<ret.from[i], ret.uuids[i]>>],
                         LAMBDA e : e[1] = k)

\* C38: one call fetches the uuid map at most once, and at a name that is
\* not of the convention and has a backing device; unless the call raised
\* before reaching it, a name of the convention gives its last 36
\* characters and a name with no backing device gives nothing, the names
\* after it being processed
C38_LazyLookup ==
    Enumerated =>
        /\ Len(ret.fetched) <= 1
        /\ \A i \in DOMAIN ret.fetched :
              /\ ~Conventional(arg.out[ret.fetched[i]])
              /\ HasBackingDevice(arg.out[ret.fetched[i]])
        /\ ~ret.raised =>
              \A k \in DOMAIN arg.out :
                  /\ Conventional(arg.out[k]) =>
                        /\ Len(FromLine(k)) = 1
                        /\ FromLine(k)[1][2] = Tail(arg.out[k])
                        /\ NameLength(FromLine(k)[1][2]) = 36
                  /\ (~Conventional(arg.out[k]) /\ ~HasBackingDevice(arg.out[k])) =>
                        Len(FromLine(k)) = 0

\* a call returned that met a volume without backing device first and then
\* two volumes opened under names of their own: the map was fetched once, at
\* the second name, and both later volumes gave their uuid
C38_Witness ==
    /\ Enumerated /\ ~ret.raised
    /\ Len(arg.out) = 3
    /\ ~Conventional(arg.out[1]) /\ ~HasBackingDevice(arg.out[1]) /\ arg.out[1] # <<>>
    /\ ~Conventional(arg.out[2]) /\ HasBackingDevice(arg.out[2])
    /\ ~Conventional(arg.out[3]) /\ HasBackingDevice(arg.out[3])
    /\ ret.fetched = <<2>>
    /\ ret.from = <<2, 3>>

====
